---- MODULE Spec2Model ----
(***************************************************************************)
(* nanodjango: the deferred-import machinery (nanodjango/defer.py) and the *)
(* reference resolver of the converter (nanodjango/convert/converter.py).  *)
(*                                                                         *)
(* Dotted module names are strings ("pkg.sub"); Path gives their           *)
(* components.  A reconstructed import line is the sequence of its tokens. *)
(* Bytecode is the instruction list dis.get_instructions returns, in the   *)
(* CPython 3.11 layout, reduced to the opcodes _extract_import looks at.   *)
(***************************************************************************)
EXTENDS Integers, Sequences, FiniteSets, TLC

\* ------------------------------------------------------------------ bounds
MaxImports == 2
MaxApplies == 2
MaxDepth == 2
MaxAttrDepth == 2

\* --------------------------------------------------------- program constants
\* _extract_import: search_start = max(0, current - 10)
WindowBack == 10
\* _extract_import: search_end = min(len, current + 10)
WindowFwd == 10

\* ------------------------------------------------------------------ values
NoneValue == [t |-> "None", name |-> ""]
Unbound == [t |-> "unbound", name |-> ""]
DummyObject(name) == [t |-> "DummyObject", name |-> name]
ModuleObj(m) == [t |-> "module", name |-> m]
AttrObj(m, x) == [t |-> "object", name |-> m \o "." \o x]
StrObj(s) == [t |-> "str", name |-> s]
MethodObj(s) == [t |-> "method", name |-> s]
ClassObj(s) == [t |-> "type", name |-> s]

\* ------------------------------------------------- the Python environment
ModuleNames == {"os", "json", "pkg", "pkg.sub", "gone", "broken", "bad"}

Path(m) ==
    CASE m = "pkg.sub" -> <<"pkg", "sub">>
      [] OTHER -> <<m>>

Root(m) == Head(Path(m))

\* what importing the module raises ("none": it imports)
ModuleStatus(m) ==
    CASE m = "gone" -> "ModuleNotFoundError"
      [] m = "broken" -> "ImportError"
      [] m = "bad" -> "ValueError"
      [] OTHER -> "none"

\* the attributes a successfully imported module has
ModuleAttrs(m) ==
    CASE m = "json" -> {"dumps", "loads"}
      [] m = "pkg" -> {"sub", "name"}
      [] m = "os" -> {"path"}
      [] OTHER -> {}

\* getattr(module, x) on a real module
PyGetattr(m, x) ==
    IF x \notin ModuleAttrs(m) THEN [exc |-> "AttributeError", value |-> Unbound]
    ELSE IF m = "pkg" /\ x = "sub" THEN [exc |-> "none", value |-> ModuleObj("pkg.sub")]
    ELSE [exc |-> "none", value |-> AttrObj(m, x)]

\* builtins.__import__(name, globals, locals, fromlist, level) of the interpreter:
\* the top-level package without a fromlist, the leaf module with one
original_import(name, hasFromlist) ==
    IF ModuleStatus(name) # "none" THEN [exc |-> ModuleStatus(name), value |-> Unbound]
    ELSE IF hasFromlist THEN [exc |-> "none", value |-> ModuleObj(name)]
    ELSE [exc |-> "none", value |-> ModuleObj(Root(name))]

\* ---------------------------------------------------------- import statements
Item(n, a) == [name |-> n, asname |-> a]
ImportStmt(m, a) == [kind |-> "import", module |-> m, items |-> <<Item(m, a)>>]
FromStmt(m, its) == [kind |-> "from", module |-> m, items |-> its]

Stmts ==
    { ImportStmt("json", ""), ImportStmt("json", "js"),
      ImportStmt("os", ""), ImportStmt("os", "o"),
      ImportStmt("pkg.sub", ""), ImportStmt("pkg.sub", "ps"),
      ImportStmt("gone", ""), ImportStmt("broken", ""), ImportStmt("bad", ""),
      FromStmt("json", <<Item("loads", "ld"), Item("nope", "")>>),
      FromStmt("pkg", <<Item("name", "")>>) }

\* a smaller set of statements: each outcome of a replayed import once
CoreStmts ==
    { ImportStmt("json", ""), ImportStmt("gone", ""), ImportStmt("broken", ""),
      ImportStmt("bad", ""),
      FromStmt("json", <<Item("loads", "ld"), Item("nope", "")>>) }

\* the name an item of a statement binds
BoundName(stmt, it) ==
    IF it.asname # "" THEN it.asname
    ELSE IF stmt.kind = "import" THEN Root(it.name)
    ELSE it.name

Names == UNION { { BoundName(s, s.items[i]) : i \in 1..Len(s.items) } : s \in Stmts }

\* ------------------------------------------------------------------ bytecode
Instr(op, arg) == [op |-> op, arg |-> arg]
Other == Instr("OTHER", "")

RECURSIVE Rep(_, _)
Rep(x, n) == IF n = 0 THEN <<>> ELSE <<x>> \o Rep(x, n - 1)

RECURSIVE FromItemsCode(_)
FromItemsCode(items) ==
    IF items = <<>> THEN <<>>
    ELSE << Instr("IMPORT_FROM", Head(items).name),
            Instr("STORE_NAME", IF Head(items).asname # "" THEN Head(items).asname
                                ELSE Head(items).name) >>
         \o FromItemsCode(Tail(items))

\* the instructions the compiler emits for one import statement
Compile(stmt) ==
    LET pre == << Other, Other, Instr("IMPORT_NAME", stmt.module) >>
        it == stmt.items[1]
        p == Path(stmt.module)
    IN  IF stmt.kind = "from" THEN pre \o FromItemsCode(stmt.items) \o <<Other>>
        ELSE IF it.asname # "" /\ Len(p) > 1
             THEN pre \o << Instr("IMPORT_FROM", p[Len(p)]),
                            Instr("STORE_NAME", it.asname), Other >>
        ELSE pre \o << Instr("STORE_NAME", BoundName(stmt, it)) >>

\* index of the IMPORT_NAME of the statement compiled last onto code
\* (frame.f_lasti while __import__ runs)
LastImportName(code) ==
    CHOOSE i \in 1..Len(code) :
        /\ code[i].op = "IMPORT_NAME"
        /\ \A j \in (i + 1)..Len(code) : code[j].op # "IMPORT_NAME"

\* The instructions a later call of _extract_import can still see.  The next
\* IMPORT_NAME comes two instructions after the end of code, so its window starts
\* WindowBack - 2 instructions before the end; within the window only the order
\* of the IMPORT_NAME, IMPORT_FROM and STORE_NAME instructions from the first
\* IMPORT_NAME on is read, so whatever precedes that instruction is dropped.
KeepTail(code) ==
    LET from == IF Len(code) <= WindowBack - 2 THEN 1 ELSE Len(code) - (WindowBack - 2) + 1
        names == {i \in from..Len(code) : code[i].op = "IMPORT_NAME"}
    IN  IF names = {} THEN <<>>
        ELSE SubSeq(code, CHOOSE i \in names : \A j \in names : i <= j, Len(code))

\* ------------------------------------------------ ImportDeferrer helpers
Max(a, b) == IF a >= b THEN a ELSE b
Min(a, b) == IF a <= b THEN a ELSE b
MinOf(S) == CHOOSE x \in S : \A y \in S : x <= y

\* True when module_name == name or module_name.startswith(name + ".")
NameMatches(module_name, name) ==
    \/ module_name = name
    \/ /\ Len(Path(name)) < Len(Path(module_name))
       /\ SubSeq(Path(module_name), 1, Len(Path(name))) = Path(name)

\* the first index of S after i, 0 when there is none
FirstAfter(S, i) == IF {j \in S : j > i} = {} THEN 0 ELSE MinOf({j \in S : j > i})

RECURSIVE JoinItems(_)
JoinItems(items) ==
    IF items = <<>> THEN <<>>
    ELSE IF Len(items) = 1 THEN Head(items)
    ELSE Head(items) \o <<",">> \o JoinItems(Tail(items))

\* the imported_items list built for the IMPORT_FROM instructions froms (ascending)
RECURSIVE ImportedItems(_, _, _)
ImportedItems(code, froms, stores) ==
    IF froms = {} THEN <<>>
    ELSE LET f == MinOf(froms)
             st == FirstAfter(stores, f)
             rest == ImportedItems(code, froms \ {f}, stores)
         IN  IF st = 0 THEN rest
             ELSE IF code[st].arg = code[f].arg THEN << <<code[f].arg>> >> \o rest
             ELSE << <<code[f].arg, "as", code[st].arg>> >> \o rest

\* the loop over the IMPORT_NAME instructions of the window, from index `from` on
RECURSIVE ExtractLoop(_, _, _, _, _)
ExtractLoop(code, name, names, others, stores) ==
    IF names = {} THEN [ok |-> FALSE, line |-> <<>>]
    ELSE LET i == MinOf(names)
             module_name == code[i].arg
             imports == names \cup others
             allNames == {j \in imports : code[j].op = "IMPORT_NAME"}
             next == FirstAfter(allNames, i)
             froms == {j \in others : j > i /\ (next = 0 \/ j < next)}
             items == ImportedItems(code, froms, stores)
             st == FirstAfter(stores, i)
             skip == ExtractLoop(code, name, names \ {i}, others, stores)
         IN  IF ~NameMatches(module_name, name) THEN skip
             ELSE IF froms # {}
                  THEN IF items # <<>>
                       THEN [ok |-> TRUE,
                             line |-> <<"from", module_name, "import">> \o JoinItems(items)]
                       ELSE skip
             ELSE IF st # 0
                  THEN IF code[st].arg = module_name
                       THEN [ok |-> TRUE, line |-> <<"import", module_name>>]
                       ELSE [ok |-> TRUE, line |-> <<"import", module_name, "as", code[st].arg>>]
             ELSE skip

\* ImportDeferrer._extract_import(frame, name): cur is the index of the instruction
\* at frame.f_lasti, frame_vars the names of the frame's locals and globals
_extract_import(code, cur, name, frame_vars) ==
    LET window == {i \in 1..Len(code) :
                      /\ i >= Max(1, cur - WindowBack)
                      /\ i <= Min(Len(code), cur + WindowFwd - 1)}
        names == {i \in window : code[i].op = "IMPORT_NAME"}
        others == {i \in window : code[i].op = "IMPORT_FROM"}
        stores == {i \in window : code[i].op = "STORE_NAME"}
        found == ExtractLoop(code, name, names, others, stores)
        potential_aliases == {v \in frame_vars : v # name}
    IN  IF found.ok THEN found
        ELSE IF Cardinality(potential_aliases) = 1
             THEN [ok |-> TRUE,
                   line |-> <<"import", name, "as", CHOOSE v \in potential_aliases : TRUE>>]
        ELSE [ok |-> FALSE, line |-> <<>>]

\* the names of an ast.ImportFrom parsed from the tokens after "import"
RECURSIVE ParseFromItems(_, _, _)
ParseFromItems(toks, module, optional) ==
    IF toks = <<>> THEN <<>>
    ELSE IF Head(toks) = "," THEN ParseFromItems(Tail(toks), module, optional)
    ELSE IF Len(toks) >= 3 /\ toks[2] = "as"
         THEN << [module_name |-> module, alias |-> "", from_name |-> toks[1],
                  from_alias |-> toks[3], optional |-> optional] >>
              \o ParseFromItems(SubSeq(toks, 4, Len(toks)), module, optional)
    ELSE << [module_name |-> module, alias |-> "", from_name |-> toks[1],
             from_alias |-> "", optional |-> optional] >>
         \o ParseFromItems(Tail(toks), module, optional)

\* ImportDeferrer._parse_import_line: the kwargs of each DeferredImport ("" is None)
_parse_import_line(line, optional) ==
    IF line[1] = "import"
    THEN << [module_name |-> line[2],
             alias |-> IF Len(line) >= 4 /\ line[3] = "as" THEN line[4] ELSE "",
             from_name |-> "", from_alias |-> "", optional |-> optional] >>
    ELSE ParseFromItems(SubSeq(line, 4, Len(line)), line[2], optional)

\* the lines _deferred_import hands to the real import
AllowedLines == { <<"import", "os">>, <<"import", "sys">>, <<"import", "tokenize">> }

\* an attribute access that always ends in DummyObject.__getattr__
DummyGetattr_always_getattr(d, attr_name) ==
    DummyObject(d.name \o "." \o attr_name)

\* DummyObject attribute access: __getattr__ runs only when normal lookup fails,
\* and the instance has `name`, the class has `_raise_error`, and every object
\* has `__class__`
DummyGetattr(d, attr_name) ==
    IF attr_name = "name" THEN StrObj(d.name)
    ELSE IF attr_name = "_raise_error" THEN MethodObj(d.name)
    ELSE IF attr_name = "__class__" THEN ClassObj("DummyObject")
    ELSE DummyObject(d.name \o "." \o attr_name)

\* DummyObject.__call__, __str__, __repr__, __bool__
DummyUse(d, how) == [exc |-> "DeferredUsageError", value |-> Unbound]

\* DeferredImport.name / the target name _execute_import computes
TargetName(deferred) ==
    IF deferred.from_name # ""
    THEN (IF deferred.from_alias # "" THEN deferred.from_alias ELSE deferred.from_name)
    ELSE (IF deferred.alias # "" THEN deferred.alias ELSE deferred.module_name)

\* ---------------------------------------------------------------- the model
VARIABLES
    \* ImportDeferrer: its attributes, and builtins.__import__
    active, deferred_imports, original_import_saved, caller_globals,
    optional_mode, file_cache, builtins_import,
    \* the script: its namespaces, the `with` blocks it is in, its bytecode so far
    namespaces, scopes, code,
    \* history: how often each DeferredImport of the queue (by id) was executed,
    \* the statements queued since the queue was last cleared, the imports run,
    \* the last operation
    executed, pending_stmts, n_imports, last,
    \* a DummyObject under use: the object, and the name it was made with
    \* followed by the attributes read from it since
    dummy, trail,
    \* the script under conversion: what each top-level definition reads, the
    \* routes, what each route's view reads, the statement the script has on
    \* top of `import json`, the helper definitions it has, whether the view is
    \* annotated as returning an HttpResponse
    script_reads, routes, view_reads, feature, script_defs, annotated,
    \* Converter: imports, used, the files written, the stage build() is in
    conv_imports, used, files, pc,
    \* the stage's Resolver, and the locals of the running stage and gen_src()
    module_name, r_imports, local_refs, global_refs,
    stage_src, extra_src, gs_saved, gs_all_src,
    \* a ReferenceVisitor at work: the definition it visits, where it is in it,
    \* its scopes and the references it has found
    fn, rv_pc, locals_stack, globals_ref,
    \* a ConverterObject whose decorators are removed: the decorator_list of its
    \* ast, its src, and what remove_decorators returned last
    decorator_list, obj_src, filtered_decorators,
    \* a route handler, and the response a request gets from it in the running
    \* script and in the generated project
    handler, script_response, project_response,
    \* an AppView under construction: the references to the app in the ast of
    \* its body, its src, its references, has_render, what was printed, and
    \* how far __init__ has come
    view_ast, view_src, view_references, has_render, printed, view_pc,
    \* the app-URL stage run on its own: app._routes, whether there are api
    \* views, and what the stage did
    app_routes, api_views, app_urls,
    \* the settings stage run on its own: the keyword arguments of
    \* `app = Django(...)`, and the assignments of the settings.py written
    django_kwargs, settings_py

deferVars == << active, deferred_imports, original_import_saved, caller_globals,
                optional_mode, file_cache, builtins_import,
                namespaces, scopes, code, executed, pending_stmts, n_imports >>
dummyVars == << dummy, trail >>
scriptVars == << script_reads, routes, view_reads, feature, script_defs, annotated >>
resolverVars == << module_name, r_imports, local_refs, global_refs >>
convVars == << scriptVars, conv_imports, used, files, pc, resolverVars,
               stage_src, extra_src, gs_saved, gs_all_src >>
refVars == << fn, rv_pc, locals_stack, globals_ref >>
decoVars == << decorator_list, obj_src, filtered_decorators >>
respVars == << handler, script_response, project_response >>
renderVars == << view_ast, view_src, view_references, has_render, printed, view_pc >>
urlVars == << app_routes, api_views, app_urls >>
settingsVars == << django_kwargs, settings_py >>
stageVars == << renderVars, urlVars, settingsVars >>
toolVars == << refVars, decoVars, respVars, stageVars >>
vars == << deferVars, dummyVars, convVars, toolVars, last >>

\* the namespaces: the script's globals, and the globals of nanodjango.defer
\* (the frame that calls __enter__ when `optional` is entered on its own)
Script == "script"
DeferModule == "nanodjango.defer"
Namespaces == {Script, DeferModule}

NoStmt == [kind |-> "none", module |-> "", items |-> <<>>]

\* what the operation taken last did: the exception it raised ("none": it
\* returned), the original error and the id of the DeferredImport a Deferred*
\* error carries, and the modules it really imported
Outcome(op, stmt, exc, orig, failed, real) ==
    [op |-> op, stmt |-> stmt, exc |-> exc, orig |-> orig, failed |-> failed, real |-> real]

\* ------------------------------------------------------- what the interpreter does
\* getattr on whatever __import__ returned (IMPORT_FROM)
GetattrAny(v, x) ==
    IF v.t = "DummyObject" THEN [exc |-> "none", value |-> DummyGetattr(v, x)]
    ELSE LET r == PyGetattr(v.name, x)
         IN  IF r.exc = "none" THEN r ELSE [exc |-> "ImportError", value |-> Unbound]

\* the STORE_NAMEs of a from-import, item by item, stopping at the first failure
RECURSIVE StoreFromItems(_, _, _)
StoreFromItems(ns, v, items) ==
    IF items = <<>> THEN [exc |-> "none", ns |-> ns]
    ELSE LET it == Head(items)
             r == GetattrAny(v, it.name)
             target == IF it.asname # "" THEN it.asname ELSE it.name
         IN  IF r.exc # "none" THEN [exc |-> r.exc, ns |-> ns]
             ELSE StoreFromItems([ns EXCEPT ![target] = r.value], v, Tail(items))

\* the rest of an import statement once __import__ has returned v
StoreImported(ns, stmt, v) ==
    LET it == stmt.items[1]
        p == Path(stmt.module)
    IN  IF stmt.kind = "from" THEN StoreFromItems(ns, v, stmt.items)
        ELSE IF it.asname # "" /\ Len(p) > 1
             THEN LET r == GetattrAny(v, p[Len(p)])
                  IN  IF r.exc # "none" THEN [exc |-> r.exc, ns |-> ns]
                      ELSE [exc |-> "none", ns |-> [ns EXCEPT ![it.asname] = r.value]]
        ELSE [exc |-> "none", ns |-> [ns EXCEPT ![BoundName(stmt, it)] = v]]

\* the bindings a direct (not deferred) execution of the statement makes
DirectImport(ns, stmt) ==
    LET r == original_import(stmt.module, stmt.kind = "from")
    IN  IF r.exc # "none" THEN [exc |-> r.exc, ns |-> ns]
        ELSE StoreImported(ns, stmt, r.value)

\* ------------------------------------------------------------- ImportDeferrer
\* DeferredImport(...) for each kwargs record, with ids from `first` on
RECURSIVE MakeDeferred(_, _, _, _)
MakeDeferred(kwargs, target_globals, line, first) ==
    IF kwargs = <<>> THEN <<>>
    ELSE << [id |-> first, module_name |-> Head(kwargs).module_name,
             target_globals |-> target_globals, line |-> line,
             alias |-> Head(kwargs).alias, from_name |-> Head(kwargs).from_name,
             from_alias |-> Head(kwargs).from_alias,
             optional |-> Head(kwargs).optional] >>
         \o MakeDeferred(Tail(kwargs), target_globals, line, first + 1)

\* ImportDeferrer._deferred_import(name, globals, locals, fromlist, level), called
\* by IMPORT_NAME at index cur of code: what it returns or raises, the items it
\* queues and whether it called the real import
_deferred_import(name, hasFromlist, target_globals, cd, cur, frame_vars, first) ==
    LET ext == _extract_import(cd, cur, name, frame_vars)
        real == original_import(name, hasFromlist)
        none == [exc |-> "none", value |-> Unbound, queued |-> <<>>, real |-> {}]
    IN  IF original_import_saved = "none" \/ caller_globals = "none"
        THEN [none EXCEPT !.exc = "RuntimeError"]
        ELSE IF ~active
        THEN [exc |-> real.exc, value |-> real.value, queued |-> <<>>, real |-> {name}]
        ELSE IF ~ext.ok
        THEN [none EXCEPT !.exc = "RuntimeError"]
        ELSE IF ext.line \in AllowedLines
        THEN [exc |-> real.exc, value |-> real.value, queued |-> <<>>, real |-> {name}]
        ELSE [exc |-> "none", value |-> DummyObject(name),
              queued |-> MakeDeferred(_parse_import_line(ext.line, optional_mode),
                                      target_globals, ext.line, first),
              real |-> {}]

\* the exception types the except clauses of _execute_import name
CaughtTypes == {"ImportError", "ModuleNotFoundError", "AttributeError"}

\* the try statement of _execute_import with except clauses for `types`: the
\* exception it raises ("none": it returned) with the original error, and the
\* namespaces after
TryImport(nss, deferred, types) ==
    LET target_name == TargetName(deferred)
        m == IF deferred.from_name # ""
             THEN original_import(deferred.module_name, TRUE)
             ELSE original_import(deferred.module_name, FALSE)
        got == IF deferred.from_name # "" /\ m.exc = "none"
               THEN PyGetattr(deferred.module_name, deferred.from_name)
               ELSE m
        caught == got.exc \in types
        bind(v) == [nss EXCEPT ![deferred.target_globals][target_name] = v]
    IN  IF got.exc = "none" THEN [exc |-> "none", orig |-> "none", nss |-> bind(got.value)]
        ELSE IF ~caught THEN [exc |-> got.exc, orig |-> got.exc, nss |-> nss]
        ELSE IF deferred.optional THEN [exc |-> "none", orig |-> "none", nss |-> bind(NoneValue)]
        ELSE IF got.exc = "ModuleNotFoundError"
             THEN [exc |-> "DeferredModuleNotFoundError", orig |-> got.exc, nss |-> nss]
        ELSE IF got.exc = "AttributeError"
             THEN [exc |-> "DeferredAttributeError", orig |-> got.exc, nss |-> nss]
        ELSE [exc |-> "DeferredImportError", orig |-> got.exc, nss |-> nss]

\* a try statement that ends in `except Exception`
_execute_import_except_Exception(nss, deferred) ==
    TryImport(nss, deferred, CaughtTypes \cup {"ValueError"})

\* ImportDeferrer._execute_import(deferred) on the namespaces nss
_execute_import(nss, deferred) ==
    TryImport(nss, deferred, CaughtTypes)

\* the loop of apply() over queue[i..]: the first exception ends it
RECURSIVE ApplyLoop(_, _, _, _)
ApplyLoop(queue, i, nss, counts) ==
    IF i > Len(queue) THEN [exc |-> "none", orig |-> "none", failed |-> 0,
                            nss |-> nss, counts |-> counts]
    ELSE LET r == _execute_import(nss, queue[i])
             c == [counts EXCEPT ![queue[i].id] = @ + 1]
         IN  IF r.exc # "none"
             THEN [exc |-> r.exc, orig |-> r.orig, failed |-> queue[i].id,
                   nss |-> r.nss, counts |-> c]
             ELSE ApplyLoop(queue, i + 1, r.nss, c)

\* the body of __enter__, called from a frame whose globals are caller_ns;
\* `guarded`: whether it begins with `if self.active: return self`
EnterBody(caller_ns, guarded) ==
    IF guarded /\ active
    THEN [exc |-> "none", active |-> active, caller_globals |-> caller_globals,
          original_import_saved |-> original_import_saved,
          builtins_import |-> builtins_import]
    ELSE [exc |-> "none", active |-> TRUE, caller_globals |-> caller_ns,
          original_import_saved |-> builtins_import,
          builtins_import |-> "deferred"]

\* an __enter__ without `if self.active: return self`
__enter__unguarded(caller_ns) ==
    EnterBody(caller_ns, FALSE)

\* ImportDeferrer.__enter__() called from a frame whose globals are caller_ns
__enter__(caller_ns) ==
    EnterBody(caller_ns, TRUE)

\* the body of __exit__; `outer_open` is what a depth counter would test
ExitBody(outer_open) ==
    IF ~active \/ outer_open
    THEN [exc |-> "none", active |-> active, builtins_import |-> builtins_import]
    ELSE IF original_import_saved = "none"
    THEN [exc |-> "RuntimeError", active |-> active, builtins_import |-> builtins_import]
    ELSE [exc |-> "none", active |-> FALSE, builtins_import |-> original_import_saved]

\* an __exit__ that counts depth: only the outermost block's exit deactivates
__exit__outermost_only ==
    ExitBody(Len(scopes) > 1)

\* ImportDeferrer.__exit__(exc_type, exc_val, exc_tb): it keeps no depth
__exit__ ==
    ExitBody(FALSE)

\* a fresh ImportDeferrer in a script that has imported nothing
DeferInit ==
    /\ active = FALSE
    /\ deferred_imports = <<>>
    /\ original_import_saved = "none"
    /\ caller_globals = "none"
    /\ optional_mode = FALSE
    /\ file_cache = {}
    /\ builtins_import = "original"
    /\ namespaces = [n \in Namespaces |-> [x \in Names |-> Unbound]]
    /\ scopes = <<>>
    /\ code = <<>>
    /\ executed = <<>>
    /\ pending_stmts = {}
    /\ n_imports = 0
    /\ last = Outcome("init", NoStmt, "none", "none", 0, {})

\* no DummyObject is under use
NoDummy ==
    /\ dummy = Unbound
    /\ trail = <<>>

\* no conversion is run
NoConversion ==
    /\ script_reads = <<>>
    /\ routes = {}
    /\ view_reads = {}
    /\ feature = <<>>
    /\ script_defs = {}
    /\ annotated = TRUE
    /\ conv_imports = <<>>
    /\ used = {}
    /\ files = <<>>
    /\ pc = "none"
    /\ module_name = ""
    /\ r_imports = {}
    /\ local_refs = {}
    /\ global_refs = {}
    /\ stage_src = <<>>
    /\ extra_src = <<>>
    /\ gs_saved = {}
    /\ gs_all_src = <<>>

\* no ReferenceVisitor is at work
NoVisitor ==
    /\ fn = <<>>
    /\ rv_pc = "none"
    /\ locals_stack = <<>>
    /\ globals_ref = {}

\* no ConverterObject is made
NoObject ==
    /\ decorator_list = <<>>
    /\ obj_src = <<>>
    /\ filtered_decorators = <<>>

\* no handler is called
NoHandler ==
    /\ handler = <<>>
    /\ script_response = <<>>
    /\ project_response = <<>>

\* no AppView is made
NoView ==
    /\ view_ast = <<>>
    /\ view_src = <<>>
    /\ view_references = {}
    /\ has_render = FALSE
    /\ printed = <<>>
    /\ view_pc = "none"

\* the app-URL stage is not run on its own
NoUrls ==
    /\ app_routes = <<>>
    /\ api_views = <<>>
    /\ app_urls = <<>>

\* the settings stage is not run on its own
NoSettings ==
    /\ django_kwargs = <<>>
    /\ settings_py = <<>>

\* no stage of the converter is run on its own
NoStages ==
    /\ NoView
    /\ NoUrls
    /\ NoSettings

\* none of the converter's helpers is in use
NoTools ==
    /\ NoVisitor
    /\ NoObject
    /\ NoHandler
    /\ NoStages

Init ==
    /\ DeferInit
    /\ NoDummy
    /\ NoConversion
    /\ NoTools

\* `with defer:` in the script, nested at most `depth` deep
EnterScopeUpTo(depth) ==
    /\ Len(scopes) < depth
    /\ LET d == __enter__(Script)
       IN  /\ active' = d.active
           /\ caller_globals' = d.caller_globals
           /\ original_import_saved' = d.original_import_saved
           /\ builtins_import' = d.builtins_import
           /\ last' = Outcome("enter", NoStmt, d.exc, "none", 0, {})
    /\ scopes' = Append(scopes, [kind |-> "defer", was_active |-> FALSE,
                                 old_optional_mode |-> FALSE])
    /\ code' = KeepTail(code \o Rep(Other, 3))
    /\ UNCHANGED << deferred_imports, optional_mode, file_cache, namespaces,
                    executed, n_imports, pending_stmts, dummyVars, convVars, toolVars >>

EnterScope == EnterScopeUpTo(MaxDepth)

\* the end of a `with defer:` block, reached normally or by an exception
ExitScope ==
    /\ scopes # <<>>
    /\ scopes[Len(scopes)].kind = "defer"
    /\ LET d == __exit__
       IN  /\ active' = d.active
           /\ builtins_import' = d.builtins_import
           /\ last' = Outcome("exit", NoStmt, d.exc, "none", 0, {})
    /\ scopes' = SubSeq(scopes, 1, Len(scopes) - 1)
    /\ code' = KeepTail(code \o Rep(Other, 18))
    /\ UNCHANGED << deferred_imports, original_import_saved, caller_globals,
                    optional_mode, file_cache, namespaces, executed,
                    n_imports, pending_stmts, dummyVars, convVars, toolVars >>

\* `with defer.optional:` in the script: the generator up to its yield
EnterOptionalUpTo(depth) ==
    /\ Len(scopes) < depth
    /\ LET was_active == active
           d == __enter__(DeferModule)
       IN  /\ active' = d.active
           /\ caller_globals' = d.caller_globals
           /\ original_import_saved' = d.original_import_saved
           /\ builtins_import' = d.builtins_import
           /\ scopes' = Append(scopes, [kind |-> "optional", was_active |-> was_active,
                                        old_optional_mode |-> optional_mode])
           /\ last' = Outcome("enter_optional", NoStmt, d.exc, "none", 0, {})
    /\ optional_mode' = TRUE
    /\ code' = KeepTail(code \o Rep(Other, 4))
    /\ UNCHANGED << deferred_imports, file_cache, namespaces, executed,
                    n_imports, pending_stmts, dummyVars, convVars, toolVars >>

EnterOptional == EnterOptionalUpTo(MaxDepth)

\* the end of a `with defer.optional:` block: the generator's finally clause;
\* `forget`: was_active is not looked at
ExitOptionalStep(forget) ==
    /\ scopes # <<>>
    /\ scopes[Len(scopes)].kind = "optional"
    /\ LET top == scopes[Len(scopes)]
           d == __exit__
       IN  /\ optional_mode' = top.old_optional_mode
           /\ IF (forget \/ ~top.was_active) /\ active
              THEN /\ active' = d.active
                   /\ builtins_import' = d.builtins_import
                   /\ last' = Outcome("exit_optional", NoStmt, d.exc, "none", 0, {})
              ELSE /\ UNCHANGED << active, builtins_import >>
                   /\ last' = Outcome("exit_optional", NoStmt, "none", "none", 0, {})
    /\ scopes' = SubSeq(scopes, 1, Len(scopes) - 1)
    /\ code' = KeepTail(code \o Rep(Other, 18))
    /\ UNCHANGED << deferred_imports, original_import_saved, caller_globals,
                    file_cache, namespaces, executed, n_imports, pending_stmts, dummyVars, convVars, toolVars >>

\* the finally clause without its test of was_active
ExitOptional_forgets_was_active == ExitOptionalStep(TRUE)

ExitOptional == ExitOptionalStep(FALSE)

\* an import statement of the script is executed: IMPORT_NAME calls
\* builtins.__import__, the following instructions store what it returned
ExecImport(stmt) ==
    /\ n_imports < MaxImports
    /\ n_imports' = n_imports + 1
    /\ LET cd == code \o Compile(stmt)
           cur == LastImportName(cd)
           ns == namespaces[Script]
           frame_vars == {x \in Names : ns[x] # Unbound} \cup {"defer"}
           direct == DirectImport(ns, stmt)
           h == _deferred_import(stmt.module, stmt.kind = "from", Script, cd, cur,
                                 frame_vars, Len(executed) + 1)
           st == StoreImported(ns, stmt, h.value)
       IN  /\ code' = KeepTail(cd)
           /\ IF builtins_import = "original"
              THEN /\ namespaces' = [namespaces EXCEPT ![Script] = direct.ns]
                   /\ last' = Outcome("import", stmt, direct.exc, "none", 0, {stmt.module})
                   /\ UNCHANGED << deferred_imports, executed, pending_stmts >>
              ELSE IF h.exc # "none"
              THEN /\ last' = Outcome("import", stmt, h.exc, "none", 0, h.real)
                   /\ UNCHANGED << namespaces, deferred_imports, executed, pending_stmts >>
              ELSE /\ namespaces' = [namespaces EXCEPT ![Script] = st.ns]
                   /\ deferred_imports' = deferred_imports \o h.queued
                   /\ pending_stmts' = IF h.queued = <<>> THEN pending_stmts
                                       ELSE pending_stmts \cup {stmt}
                   /\ executed' = executed \o [i \in 1..Len(h.queued) |-> 0]
                   /\ last' = Outcome("import", stmt, st.exc, "none", 0, h.real)
    /\ UNCHANGED << active, original_import_saved, caller_globals, optional_mode,
                    file_cache, builtins_import, scopes, dummyVars, convVars, toolVars >>

\* apply() as a script step; `is_active` is the value its first test reads
ApplyStep(is_active) ==
    /\ \A i \in 1..Len(deferred_imports) : executed[deferred_imports[i].id] < MaxApplies
    /\ code' = KeepTail(code \o Rep(Other, 5))
    /\ IF is_active
       THEN /\ last' = Outcome("apply", NoStmt, "RuntimeError", "none", 0, {})
            /\ UNCHANGED << deferred_imports, caller_globals, file_cache,
                            namespaces, executed, pending_stmts >>
       ELSE LET r == ApplyLoop(deferred_imports, 1, namespaces, executed)
            IN  /\ namespaces' = r.nss
                /\ executed' = IF r.exc = "none" THEN <<>> ELSE r.counts
                /\ last' = Outcome("apply", NoStmt, r.exc, r.orig, r.failed,
                                   {deferred_imports[i].module_name :
                                       i \in {j \in 1..Len(deferred_imports) :
                                                 r.counts[deferred_imports[j].id]
                                                   > executed[deferred_imports[j].id]}})
                /\ IF r.exc = "none"
                   THEN /\ deferred_imports' = <<>>
                        /\ caller_globals' = "none"
                        /\ file_cache' = {}
                        /\ pending_stmts' = {}
                   ELSE UNCHANGED << deferred_imports, caller_globals, file_cache,
                                     pending_stmts >>
    /\ UNCHANGED << active, original_import_saved, optional_mode, builtins_import,
                    scopes, n_imports, dummyVars, convVars, toolVars >>

\* an apply() without the test of self.active
Apply_unguarded ==
    ApplyStep(FALSE)

\* ImportDeferrer.apply()
Apply ==
    ApplyStep(active)

Next ==
    \/ EnterScope
    \/ ExitScope
    \/ EnterOptional
    \/ ExitOptional
    \/ \E stmt \in Stmts : ExecImport(stmt)
    \/ Apply

Spec == Init /\ [][Next]_vars

\* the same machine over the statements of CoreStmts
NextCore ==
    \/ EnterScope
    \/ ExitScope
    \/ EnterOptional
    \/ ExitOptional
    \/ \E stmt \in CoreStmts : ExecImport(stmt)
    \/ Apply

SpecCore == Init /\ [][NextCore]_vars

\* the same machine with deeper nesting of the blocks, two statements and no
\* apply()
MaxScopes == 3
ScopeStmts == { ImportStmt("json", ""), ImportStmt("gone", "") }

NextScopes ==
    \/ EnterScopeUpTo(MaxScopes)
    \/ ExitScope
    \/ EnterOptionalUpTo(MaxScopes)
    \/ ExitOptional
    \/ \E stmt \in ScopeStmts : ExecImport(stmt)

SpecScopes == Init /\ [][NextScopes]_vars

\* ------------------------------------------------- a DummyObject under use
\* the attributes the script reads, and what else it does with the object
AttrNames == {"name", "_raise_error", "__class__", "dumps", "models", "Model"}
Uses == {"__call__", "__str__", "__repr__", "__bool__"}

\* _deferred_import has returned DummyObject(name) for an intercepted import
InitDummy ==
    /\ DeferInit
    /\ NoConversion
    /\ NoTools
    /\ \E m \in ModuleNames :
          /\ dummy = DummyObject(m)
          /\ trail = <<m>>

\* obj.attr on the object: the script goes on with what it got
DummyRead(attr_name) ==
    /\ dummy.t = "DummyObject"
    /\ Len(trail) <= MaxAttrDepth
    /\ dummy' = DummyGetattr(dummy, attr_name)
    /\ trail' = Append(trail, attr_name)
    /\ last' = Outcome("getattr", NoStmt, "none", "none", 0, {})
    /\ UNCHANGED << deferVars, convVars, toolVars >>

\* obj(), str(obj), repr(obj), bool(obj)
DummyOperate(how) ==
    /\ dummy.t = "DummyObject"
    /\ last' = Outcome(how, NoStmt, DummyUse(dummy, how).exc, "none", 0, {})
    /\ UNCHANGED << deferVars, dummyVars, convVars, toolVars >>

NextDummy ==
    \/ \E attr_name \in AttrNames : DummyRead(attr_name)
    \/ \E how \in Uses : DummyOperate(how)

SpecDummy == InitDummy /\ [][NextDummy]_vars

\* ------------------------------------------------------------ the converter
\* how many names a top-level definition reads, how many a view reads, and how
\* many lines a plugin adds to a stage
MaxRefs == 1
MaxViewRefs == 2
MaxExtraSrc == 1

\* the script: helper definitions, one route handler, the app, `import json`
\* and at most one of the features: an import whose bound name differs from
\* the imported name, or the annotated assignment `X: int = 1`
DefNames == {"A", "B", "C"}
ViewName == "V"
ImportNames == {"json"}
AppName == "app"
ConstName == "X"
NoFeature == [kind |-> "none", module |-> "", items |-> <<>>]
AnnAssign == [kind |-> "annassign", module |-> "", items |-> <<Item(ConstName, "")>>]
\* a function of the script decorated with @app.api.get(...)
ApiName == "F"
ApiDef == [kind |-> "api", module |-> "", items |-> <<Item(ApiName, "")>>]
Features ==
    {NoFeature, AnnAssign, ApiDef, ImportStmt("pkg.sub", ""), ImportStmt("numpy", "np"),
     FromStmt("m", <<Item("x", "y")>>)}

\* `from nanodjango import Django`, which every script begins with
DjangoImport == FromStmt("nanodjango", <<Item("Django", "")>>)

\* the ast.Import and ast.ImportFrom nodes of the script's ast.body
ScriptImports(f) ==
    {DjangoImport} \cup {ImportStmt(n, "") : n \in ImportNames}
        \cup {st \in {f} : st.kind \in {"import", "from"}}

\* alias.name of every alias of the statements, and the names the statements bind
ImportKeys(f) ==
    UNION {{st.items[i].name : i \in 1..Len(st.items)} : st \in ScriptImports(f)}
ImportBound(f) ==
    UNION {{BoundName(st, st.items[i]) : i \in 1..Len(st.items)} : st \in ScriptImports(f)}

WrapperName == "ensure_http_response"

\* ensure_http_response._dependencies
WrapperDependencies == {"wraps", "HttpResponse"}

AllNames ==
    DefNames \cup {ViewName, ConstName, ApiName, AppName, "__name__", WrapperName, "api"}
        \cup WrapperDependencies
        \cup UNION {ImportKeys(f) \cup ImportBound(f) : f \in Features}

\* A and B are functions, C is a class
Kind(name) == IF name = "C" THEN "class" ELSE "function"

\* name.startswith("_")
StartsWithUnderscore(name) == name = "__name__"

\* the keys of module.__dict__
ModuleDict ==
    script_defs \cup routes \cup ImportBound(feature) \cup {AppName, "__name__"}
        \cup (IF feature = AnnAssign THEN {ConstName} ELSE {})
        \cup (IF feature = ApiDef THEN {ApiName} ELSE {})

\* utils.collect_references on the definition of `name`, whose body reads `reads`:
\* visit_FunctionDef puts the function's name in scope, visit_ClassDef does not
collect_references(name, reads) ==
    IF Kind(name) = "function" THEN reads \ {name} ELSE reads

\* import lines; NoLine: the name has no entry in converter.imports
NoLine == <<>>
ImportLine(name) == <<"import", name>>
FromLine(module, name) == <<"from", module, "import", name>>

SubsetsUpTo(S, n) == {T \in SUBSET S : Cardinality(T) <= n}

\* the orders a set can be iterated in
RECURSIVE Orders(_)
Orders(S) ==
    IF S = {} THEN {<<>>}
    ELSE UNION {{<<x>> \o o : o \in Orders(S \ {x})} : x \in S}

\* the lists a plugin can return as extra_src
ExtraSrcs == UNION {[1..n -> {"extra"}] : n \in 0..MaxExtraSrc}

\* Resolver.__init__
NewResolver == [imports |-> {}, local_refs |-> {}, global_refs |-> {}]

\* Resolver.add_object(name) on resolver r with converter.imports ci
add_object(r, ci, module, name) ==
    [r |-> [r EXCEPT !.local_refs = @ \cup {name}],
     ci |-> [ci EXCEPT ![name] = FromLine(module, name)]]

\* Resolver.add_references(references)
add_references(r, ci, references) ==
    LET new == {ref \in references : ref \notin r.local_refs}
    IN  [r EXCEPT !.imports = @ \cup {ci[ref] : ref \in {x \in new : ci[x] # NoLine}},
                  !.global_refs = @ \cup {x \in new : ci[x] = NoLine}]

\* Resolver.add(name, references)
add(r, ci, module, name, references) ==
    LET o == add_object(r, ci, module, name)
    IN  [r |-> add_references(o.r, o.ci, references), ci |-> o.ci]

\* inspect.getsource(module.__dict__[obj_name]) under CPython 3.11: the text of
\* a function or class wherever it was defined, the text of a module that has
\* one, OSError for a package whose __init__ is empty, TypeError for any other
\* object
getsource(obj_name) ==
    CASE obj_name \in DefNames \cup {ViewName, ApiName, "Django"} ->
            [exc |-> "none", src |-> obj_name]
      [] obj_name = "pkg" -> [exc |-> "OSError", src |-> ""]
      [] obj_name \in {"np", "json"} ->
            [exc |-> "none", src |-> IF obj_name = "np" THEN "numpy" ELSE obj_name]
      [] obj_name = "y" -> [exc |-> "none", src |-> "x"]
      [] OTHER -> [exc |-> "TypeError", src |-> ""]

\* Converter.collect_definition(obj_name): the source is the name of what was
\* copied. A name missing from module.__dict__ is the ValueError "unknown
\* symbol"; an object without source and without a top-level ast.Assign is the
\* ValueError "undetermined symbol"; only TypeError is caught around getsource.
\* The one ast.Assign of the script is `app = Django()`. The source of a
\* decorated function has its decorators, which read the app
collect_definition(obj_name) ==
    LET g == getsource(obj_name)
    IN  IF obj_name = WrapperName
        THEN [exc |-> "none", src |-> WrapperName, references |-> WrapperDependencies]
        ELSE IF obj_name \notin ModuleDict
        THEN [exc |-> "ValueError", src |-> "", references |-> {}]
        ELSE IF g.exc = "none"
        THEN [exc |-> "none", src |-> g.src,
              references |-> IF obj_name \in DefNames
                             THEN collect_references(obj_name, script_reads[obj_name])
                             ELSE IF obj_name \in {ViewName, ApiName} THEN {AppName}
                             ELSE {}]
        ELSE IF g.exc # "TypeError"
        THEN [exc |-> g.exc, src |-> "", references |-> {}]
        ELSE IF obj_name = AppName
        THEN [exc |-> "none", src |-> AppName, references |-> {"Django"}]
        ELSE [exc |-> "ValueError", src |-> "", references |-> {}]

\* self.imports.update(ensure_http_response._dependencies), which
\* collect_definition does for the wrapper
inject_dependencies(ci, obj_name) ==
    IF obj_name # WrapperName THEN ci
    ELSE [n \in AllNames |->
             CASE n = "wraps" -> FromLine("functools", "wraps")
               [] n = "HttpResponse" -> FromLine("django.http", "HttpResponse")
               [] OTHER -> ci[n]]

\* AppView.fix_return_value and collect_references: a view that is not
\* annotated as returning an HttpResponse gets the decorator, which it then
\* references
AppView_references ==
    view_reads \cup (IF annotated THEN {} ELSE {WrapperName})

\* the loop of build_app_unused over order[i..]
RECURSIVE UnusedLoop(_, _, _)
UnusedLoop(order, i, st) ==
    IF i > Len(order) \/ st.exc # "none" THEN st
    ELSE IF StartsWithUnderscore(order[i]) THEN UnusedLoop(order, i + 1, st)
    ELSE LET d == collect_definition(order[i])
             a == add(st.r, st.ci, ".unused", order[i], d.references)
         IN  IF d.exc # "none" THEN [st EXCEPT !.exc = d.exc]
             ELSE UnusedLoop(order, i + 1,
                             [exc |-> "none", r |-> a.r, ci |-> a.ci,
                              used |-> st.used \cup {order[i]},
                              all_src |-> Append(st.all_src, d.src)])

\* what write_file is given: the imports and sources gen_src() returns, the
\* stage's own sources and the plugins' lines
Content(imports, gen, body, extra) ==
    [imports |-> imports, gen |-> gen, body |-> body, extra |-> extra]

NoFile == Content({}, <<>>, <<>>, <<>>)
FileNames == {"models.py", "views.py", "api.py", "urls.py", "admin.py", "unused.py"}

\* Converter.__init__ has run on a script of the family
InitConvert ==
    /\ DeferInit
    /\ NoDummy
    /\ NoTools
    /\ feature \in Features
    /\ script_reads \in [DefNames -> SubsetsUpTo(DefNames, MaxRefs)]
    /\ (feature # NoFeature => \A n \in DefNames : script_reads[n] = {})
    /\ script_defs \in {{}, DefNames}
    /\ (script_defs = {} => \A n \in DefNames : script_reads[n] = {})
    /\ routes \in SUBSET {ViewName}
    /\ view_reads \in SubsetsUpTo(script_defs \cup (ImportBound(feature) \ {"Django"})
                                      \cup {ConstName}
                                      \cup (IF feature = ApiDef THEN {ApiName} ELSE {}),
                                  MaxViewRefs)
    /\ annotated \in BOOLEAN
    /\ (routes = {} => view_reads = {} /\ annotated)
    /\ conv_imports = [n \in AllNames |-> NoLine]
    /\ used = {}
    /\ files = [f \in FileNames |-> [written |-> FALSE, content |-> NoFile]]
    /\ pc = "collect_imports"
    /\ module_name = ""
    /\ r_imports = {}
    /\ local_refs = {}
    /\ global_refs = {}
    /\ stage_src = <<>>
    /\ extra_src = <<>>
    /\ gs_saved = {}
    /\ gs_all_src = <<>>

\* self.imports as Converter.collect_imports() fills it: one entry per alias,
\* keyed by alias.name, the later statement winning
collect_imports_dict(f) ==
    [n \in AllNames |->
        IF n \notin ImportKeys(f) THEN NoLine
        ELSE LET st == CHOOSE x \in ScriptImports(f) :
                           \E i \in 1..Len(x.items) : x.items[i].name = n
             IN  IF st.kind = "import" THEN ImportLine(n) ELSE FromLine(st.module, n)]

\* Converter.collect_imports(), the first step of build()
CollectImports ==
    /\ pc = "collect_imports"
    /\ conv_imports' = collect_imports_dict(feature)
    /\ pc' = "models"
    /\ last' = Outcome("collect_imports", NoStmt, "none", "none", 0, {})
    /\ UNCHANGED << deferVars, dummyVars, toolVars, scriptVars, used, files, resolverVars,
                    stage_src, extra_src, gs_saved, gs_all_src >>

\* a stage begins with Resolver(self, module) and has found nothing to write
NewStage(module) ==
    /\ module_name' = module
    /\ r_imports' = {}
    /\ global_refs' = {}
    /\ stage_src' = <<>>
    /\ extra_src' = <<>>
    /\ gs_saved' = {}
    /\ gs_all_src' = <<>>

\* Converter.build_app_models(): no class of the script is a Model, and the
\* hook returns its arguments; nothing is written
BuildAppModels ==
    /\ pc = "models"
    /\ NewStage(".models")
    /\ local_refs' = {}
    /\ pc' = "views"
    /\ last' = Outcome("build_app_models", NoStmt, "none", "none", 0, {})
    /\ UNCHANGED << deferVars, dummyVars, toolVars, scriptVars, conv_imports, used, files >>

\* the functions of the script that have an api decorator
ApiViews == IF feature = ApiDef THEN <<ApiName>> ELSE <<>>

\* Converter.build_app_api(): resolver.add_object("api") comes first; every
\* function with an api decorator is added with its references, which after
\* AppApiView.fix_return_value are {"api"}; gen_src() finds no global
\* reference and returns the imports; api.py is written when there is an api view
BuildAppApi ==
    /\ pc = "api"
    /\ NewStage(".api")
    /\ LET o == add_object(NewResolver, conv_imports, ".api", "api")
           a == IF ApiViews = <<>> THEN o
                ELSE add(o.r, o.ci, ".api", ApiName, {"api"})
       IN  /\ local_refs' = a.r.local_refs
           /\ conv_imports' = a.ci
           /\ files' = IF ApiViews = <<>> THEN files
                        ELSE [files EXCEPT !["api.py"] =
                                 [written |-> TRUE,
                                  content |-> Content(a.r.imports, <<>>, ApiViews, <<>>)]]
    /\ pc' = "urls"
    /\ last' = Outcome("build_app_api", NoStmt, "none", "none", 0, {})
    /\ UNCHANGED << deferVars, dummyVars, toolVars, scriptVars, used >>

\* an entry of app._routes: a handler (`view` is its name) or an include
\* (view is None), the `re` flag, and for an include the ast node that
\* Django.route() found for the call:
\*   "none"          no ast.Expr at the line of the call
\*   "positional"    app.route("x/", include("x.urls"))
\*   "keyword"       app.route("x/", include=include("x.urls"))
\*   "other_keyword" app.route("x/", include("x.urls"), name="x")
Route(kind, view, re, source) == [kind |-> kind, view |-> view, re |-> re, source |-> source]
IncludeSources == {"none", "positional", "keyword", "other_keyword"}
IncludeSrc == "include"

\* make_url(): the function the line calls
path_fn(re) == IF re THEN "re_path" ELSE "path"

\* the loop of build_app_urls over app._routes[i..]; `st.urls` are the view_fn
\* of the lines made so far, `st.fns` the functions they call
RECURSIVE UrlsLoop(_, _, _)
UrlsLoop(app_routes_, i, st) ==
    IF i > Len(app_routes_) \/ st.exc # "none" THEN st
    ELSE LET route == app_routes_[i]
             added == [st EXCEPT !.imports = @ \cup {path_fn(route.re)},
                                 !.fns = @ \cup {path_fn(route.re)}]
         IN  IF route.kind = "view"
             THEN UrlsLoop(app_routes_, i + 1,
                           [added EXCEPT !.urls = Append(@, route.view)])
             ELSE CASE route.source \in {"none", "positional"} ->
                          [st EXCEPT !.exc = "ConversionError"]
                    [] route.source = "other_keyword" ->
                          [st EXCEPT !.exc = "StopIteration"]
                    [] OTHER ->
                          UrlsLoop(app_routes_, i + 1,
                                   [added EXCEPT !.urls = Append(@, IncludeSrc),
                                                 !.references = @ \cup {IncludeSrc}])

\* Converter.build_app_urls() on app._routes, with converter.imports `ci`: what
\* it raises, whether it writes urls.py, and what it writes: the names of
\* `from django.urls import ...`, whether `from . import views` is there, the
\* lines of resolver.gen_src(), and the lines of urlpatterns. write_file()
\* formats the content first, and format_str() raises InvalidInput for
\* `from django.urls import` without a name
build_app_urls(app_routes_, has_api, ci) ==
    LET st == UrlsLoop(app_routes_, 1,
                       [exc |-> "none", imports |-> {},
                        urls |-> IF has_api THEN <<"api.urls">> ELSE <<>>,
                        fns |-> IF has_api THEN {path_fn(FALSE)} ELSE {},
                        references |-> IF has_api THEN {"api"} ELSE {}])
        r == add_references(NewResolver, ci, st.references)
        views == \E k \in 1..Len(app_routes_) : app_routes_[k].kind = "view"
    IN  [exc |-> IF st.exc = "none" /\ st.urls # <<>> /\ st.imports = {}
                 THEN "InvalidInput" ELSE st.exc,
         written |-> st.exc = "none" /\ st.urls # <<>> /\ st.imports # {},
         imports |-> st.imports,
         views_import |-> views,
         resolver |-> r,
         urls |-> st.urls,
         fns |-> st.fns]

\* the import lines of the urls.py that build_app_urls() writes
UrlsImportLines(u) ==
    (IF u.imports = {} THEN {<<"from", "django.urls", "import">>}
     ELSE {FromLine("django.urls", n) : n \in u.imports})
        \cup (IF u.views_import THEN {FromLine(".", "views")} ELSE {})
        \cup u.resolver.imports

\* Converter.build_app_urls() in build(): app._routes has the route of the
\* script, if any; urls.py is written when there is a line for urlpatterns
BuildAppUrls ==
    /\ pc = "urls"
    /\ NewStage(".urls")
    /\ local_refs' = {}
    /\ LET order == CHOOSE o \in Orders(routes) : TRUE
           u == build_app_urls([k \in 1..Len(order) |->
                                   Route("view", order[k], FALSE, "none")],
                               ApiViews # <<>>, conv_imports)
       IN  /\ files' = IF ~u.written THEN files
                    ELSE [files EXCEPT !["urls.py"] =
                             [written |-> TRUE,
                              content |-> Content(UrlsImportLines(u), <<>>, u.urls, <<>>)]]
           /\ pc' = IF u.exc # "none" THEN "failed" ELSE "admin"
           /\ last' = Outcome("build_app_urls", NoStmt, u.exc, "none", 0, {})
    /\ UNCHANGED << deferVars, dummyVars, toolVars, scriptVars, conv_imports, used >>

\* Converter.build_app_admin(): self.models is empty, nothing is written
BuildAppAdmin ==
    /\ pc = "admin"
    /\ NewStage(".admin")
    /\ local_refs' = {}
    /\ pc' = "unused"
    /\ last' = Outcome("build_app_admin", NoStmt, "none", "none", 0, {})
    /\ UNCHANGED << deferVars, dummyVars, toolVars, scriptVars, conv_imports, used, files >>

\* Converter.build_app_views() up to its call of resolver.gen_src()
BuildAppViews ==
    /\ pc = "views"
    /\ LET order == CHOOSE o \in Orders(routes) : TRUE
           a == IF routes = {} THEN [r |-> NewResolver, ci |-> conv_imports]
                ELSE add(NewResolver, conv_imports, ".views", order[1], AppView_references)
       IN  /\ conv_imports' = a.ci
           /\ module_name' = ".views"
           /\ r_imports' = a.r.imports
           /\ local_refs' = a.r.local_refs
           /\ global_refs' = a.r.global_refs
           /\ stage_src' = order
           /\ extra_src' = <<>>
           /\ gs_saved' = a.r.global_refs
           /\ gs_all_src' = <<>>
           /\ pc' = IF routes = {} THEN "api" ELSE "gen_src"
    /\ last' = Outcome("build_app_views", NoStmt, "none", "none", 0, {})
    /\ UNCHANGED << deferVars, dummyVars, toolVars, scriptVars, used, files >>

\* Converter.build_app_unused() up to its call of resolver.gen_src()
BuildAppUnused ==
    /\ pc = "unused"
    /\ LET used0 == used \cup {n \in AllNames : conv_imports[n] # NoLine} \cup {AppName}
           unused == ModuleDict \ used0
       IN  \E order \in Orders(unused), extra \in ExtraSrcs :
              LET st == UnusedLoop(order, 1,
                                   [exc |-> "none", r |-> NewResolver, ci |-> conv_imports,
                                    used |-> used0, all_src |-> <<>>])
              IN  /\ conv_imports' = st.ci
                  /\ used' = st.used
                  /\ module_name' = ".unused"
                  /\ r_imports' = st.r.imports
                  /\ local_refs' = st.r.local_refs
                  /\ global_refs' = st.r.global_refs
                  /\ stage_src' = st.all_src
                  /\ extra_src' = extra
                  /\ gs_saved' = st.r.global_refs
                  /\ gs_all_src' = <<>>
                  /\ pc' = IF st.exc # "none" THEN "failed"
                           ELSE IF st.all_src = <<>> \/ extra # <<>> THEN "done"
                           ELSE "gen_src"
                  /\ last' = Outcome("build_app_unused", NoStmt, st.exc, "none", 0, {})
    /\ UNCHANGED << deferVars, dummyVars, toolVars, scriptVars, files >>

\* one turn of the while loop of Resolver.gen_src(): set.pop() takes any element;
\* `now_local`: the names the turn adds to local_refs, given the one it collected
GenSrcTurn(now_local(_)) ==
    /\ pc = "gen_src"
    /\ global_refs # {}
    /\ \E global_ref \in global_refs :
          LET d == collect_definition(global_ref)
              ci == inject_dependencies(conv_imports, global_ref)
              r == add_references([imports |-> r_imports, local_refs |-> local_refs,
                                   global_refs |-> global_refs \ {global_ref}],
                                  ci, d.references)
          IN  IF d.exc # "none"
              THEN /\ pc' = "failed"
                   /\ global_refs' = global_refs \ {global_ref}
                   /\ last' = Outcome("gen_src", NoStmt, d.exc, "none", 0, {})
                   /\ UNCHANGED << used, gs_all_src, r_imports, local_refs, conv_imports >>
              ELSE /\ used' = used \cup ({global_ref} \ {WrapperName})
                   /\ gs_all_src' = Append(gs_all_src, d.src)
                   /\ r_imports' = r.imports
                   /\ global_refs' = r.global_refs \ local_refs
                   /\ local_refs' = local_refs \cup now_local(global_ref)
                   /\ conv_imports' = [ci EXCEPT
                                          ![global_ref] = FromLine(module_name, global_ref)]
                   /\ pc' = pc
                   /\ last' = Outcome("gen_src", NoStmt, "none", "none", 0, {})
    /\ UNCHANGED << deferVars, dummyVars, toolVars, scriptVars, files, module_name,
                    stage_src, extra_src, gs_saved >>

\* the loop without "The global reference is now local"
GenSrcStep_keeps_local_refs == GenSrcTurn(LAMBDA ref : {})

GenSrcStep == GenSrcTurn(LAMBDA ref : {ref})

\* gen_src() leaves its loop, restores global_refs and returns; the stage writes
\* its file and build() goes on to the next stage
GenSrcReturn ==
    /\ pc = "gen_src"
    /\ global_refs = {}
    /\ global_refs' = gs_saved
    /\ LET f == IF module_name = ".views" THEN "views.py" ELSE "unused.py"
       IN  files' = [files EXCEPT ![f] =
                        [written |-> TRUE,
                         content |-> Content(r_imports, gs_all_src, stage_src, extra_src)]]
    /\ pc' = IF module_name = ".views" THEN "api" ELSE "done"
    /\ last' = Outcome("write_file", NoStmt, "none", "none", 0, {})
    /\ UNCHANGED << deferVars, dummyVars, toolVars, scriptVars, conv_imports, used, module_name,
                    r_imports, local_refs, stage_src, extra_src, gs_saved, gs_all_src >>

NextConvert ==
    \/ CollectImports
    \/ BuildAppModels
    \/ BuildAppViews
    \/ BuildAppApi
    \/ BuildAppUrls
    \/ BuildAppAdmin
    \/ BuildAppUnused
    \/ GenSrcStep
    \/ GenSrcReturn

SpecConvert == InitConvert /\ [][NextConvert]_vars

\* the scripts of the family that have an annotated route and the helpers, and
\* nothing else
InitResolve ==
    /\ InitConvert
    /\ feature = NoFeature
    /\ script_defs = DefNames
    /\ routes = {ViewName}
    /\ annotated

\* the while loop of gen_src() runs without waiting for anything: a turn is
\* taken while global_refs has a name, and the method returns when it has none
SpecResolve ==
    InitResolve /\ [][NextConvert]_vars /\ WF_vars(GenSrcStep) /\ WF_vars(GenSrcReturn)

\* ------------------------------------------------------ the reference visitor
\* the definition visited is `def f(<x>): <stmt>; return <ret>`: x is the one
\* parameter, of any kind; the statement binds or names y and reads at most one
\* name before (pre) and one after (post) the binding; g is a global, len a
\* builtin
FnName == "f"
ParamName == "x"
LocalName == "y"
RefNames == {ParamName, LocalName, "g", "len"}
Builtins == {"len", "int"}
ParamKinds == {"args", "posonlyargs", "kwonlyargs", "vararg", "kwarg"}

\* at most one name read
Reads == {{}} \cup {{n} : n \in RefNames}

\* statements without a body:
\*   assign `y = pre`, assign_tuple `y, t = pre`, assign_star `t, *y = pre`,
\*   annassign `y: int = pre`, augassign `y += pre`, namedexpr `(y := pre)`,
\*   global `global y`, import `import y`, expr `pre`, attribute `pre.attr`
\* statements with a body:
\*   listcomp `[post for y in pre]` (also set and generator), dictcomp
\*   `{post: post for y in pre}`, for `for y in pre: post`, with `with pre as y:
\*   post`, try `try: pass / except pre as y: post`, lambda `lambda y=pre: post`,
\*   functiondef `def h(y=pre): return post`
FlatKinds ==
    {"assign", "assign_tuple", "assign_star", "annassign", "augassign", "namedexpr",
     "global", "import", "expr", "attribute"}
CompKinds == {"listcomp", "setcomp", "generatorexp"}
BodyKinds == CompKinds \cup {"dictcomp", "for", "with", "try", "lambda", "functiondef"}

RefStmts ==
    [kind : FlatKinds, pre : Reads, post : {{}}]
        \cup [kind : BodyKinds, pre : Reads, post : Reads]

Functions == [param_kind : ParamKinds, stmt : RefStmts, ret : Reads]

\* ReferenceVisitor.current_scope and local_scopes
current_scope(stack) == stack[Len(stack)]
local_scopes(stack) == UNION {stack[i] : i \in 1..Len(stack)}

\* push_scope, pop_scope, and current_scope.add(name)
push_scope(stack) == Append(stack, current_scope(stack))
pop_scope(stack) == SubSeq(stack, 1, Len(stack) - 1)
scope_add(stack, names) == [stack EXCEPT ![Len(stack)] = @ \cup names]

\* ReferenceVisitor.found_reference for a node with id `ref`
found_reference(ref, stack, refs) ==
    IF ref \in Builtins THEN refs
    ELSE IF ref \notin local_scopes(stack) THEN refs \cup {ref}
    ELSE refs

\* visit_Name on each Load name of an expression
visit_reads(reads, stack, refs) ==
    refs \cup UNION {found_reference(n, stack, {}) : n \in reads}

\* a ReferenceVisitor has been made for a function of the family
InitRefs ==
    /\ DeferInit
    /\ NoDummy
    /\ NoConversion
    /\ NoStages
    /\ NoObject
    /\ NoHandler
    /\ fn \in Functions
    /\ rv_pc = "visit"
    /\ locals_stack = << {} >>
    /\ globals_ref = {}

\* what the visitor's actions leave alone
RefFrame(op, exc) ==
    /\ last' = Outcome(op, NoStmt, exc, "none", 0, {})
    /\ UNCHANGED << deferVars, dummyVars, convVars, stageVars, decoVars, respVars, fn >>

\* visit_FunctionDef up to generic_visit(node): the function's name joins the
\* current scope, a scope is pushed, and args, kwonlyargs, vararg and kwarg join
\* it
VisitFunctionDef ==
    /\ rv_pc = "visit"
    /\ LET outer == scope_add(locals_stack, {FnName})
           args == IF fn.param_kind = "posonlyargs" THEN {} ELSE {ParamName}
       IN  locals_stack' = scope_add(push_scope(outer), args)
    /\ rv_pc' = "body"
    /\ UNCHANGED globals_ref
    /\ RefFrame("visit_FunctionDef", "none")

\* visit_Assign: Name targets, and the Name elements of Tuple targets, join the
\* current scope before generic_visit reaches the value
VisitAssign ==
    /\ rv_pc = "body"
    /\ fn.stmt.kind \in {"assign", "assign_tuple", "assign_star"}
    /\ LET targets == CASE fn.stmt.kind = "assign" -> {LocalName}
                        [] fn.stmt.kind = "assign_tuple" -> {LocalName, "t"}
                        [] OTHER -> {"t"}
           stack == scope_add(locals_stack, targets)
       IN  /\ locals_stack' = stack
           /\ globals_ref' = visit_reads(fn.stmt.pre, stack, globals_ref)
    /\ rv_pc' = "return"
    /\ RefFrame("visit_Assign", "none")

\* visit_NamedExpr
VisitNamedExpr ==
    /\ rv_pc = "body"
    /\ fn.stmt.kind = "namedexpr"
    /\ LET stack == scope_add(locals_stack, {LocalName})
       IN  /\ locals_stack' = stack
           /\ globals_ref' = visit_reads(fn.stmt.pre, stack, globals_ref)
    /\ rv_pc' = "return"
    /\ RefFrame("visit_NamedExpr", "none")

\* visit_Name and visit_Attribute on an expression statement
VisitExpr ==
    /\ rv_pc = "body"
    /\ fn.stmt.kind \in {"expr", "attribute"}
    /\ globals_ref' = visit_reads(fn.stmt.pre, locals_stack, globals_ref)
    /\ rv_pc' = "return"
    /\ UNCHANGED locals_stack
    /\ RefFrame("visit_Name", "none")

\* visit_Global: found_reference is handed the Global node, which has no id
VisitGlobal ==
    /\ rv_pc = "body"
    /\ fn.stmt.kind = "global"
    /\ rv_pc' = "failed"
    /\ UNCHANGED << locals_stack, globals_ref >>
    /\ RefFrame("visit_Global", "AttributeError")

\* visit_Import (also visit_ImportFrom): the bound name joins the current scope
VisitImport ==
    /\ rv_pc = "body"
    /\ fn.stmt.kind = "import"
    /\ locals_stack' = scope_add(locals_stack, {LocalName})
    /\ rv_pc' = "return"
    /\ UNCHANGED globals_ref
    /\ RefFrame("visit_Import", "none")

\* nodes the class has no method for (AnnAssign, AugAssign, For, Lambda):
\* NodeVisitor.generic_visit visits the children; a Name or arg that is stored
\* to is not a Load and joins no scope
GenericVisit ==
    /\ rv_pc = "body"
    /\ fn.stmt.kind \in {"annassign", "augassign", "for", "lambda"}
    /\ globals_ref' = visit_reads(fn.stmt.pre \cup fn.stmt.post \cup
                                     (IF fn.stmt.kind = "annassign" THEN {"int"} ELSE {}),
                                  locals_stack, globals_ref)
    /\ rv_pc' = "return"
    /\ UNCHANGED locals_stack
    /\ RefFrame("generic_visit", "none")

\* visit_ListComp (also visit_SetComp and visit_GeneratorExp) and
\* visit_DictComp: a scope is pushed, the generators and the element (key and
\* value) are visited, the scope is popped
VisitComp ==
    /\ rv_pc = "body"
    /\ fn.stmt.kind \in CompKinds \cup {"dictcomp"}
    /\ LET stack == push_scope(locals_stack)
           refs == visit_reads(fn.stmt.pre \cup fn.stmt.post, stack, globals_ref)
       IN  /\ globals_ref' = refs
           /\ locals_stack' = pop_scope(stack)
    /\ rv_pc' = "return"
    /\ RefFrame(IF fn.stmt.kind = "dictcomp" THEN "visit_DictComp" ELSE "visit_ListComp",
                "none")

\* visit_With and visit_ExceptHandler: the expression is visited, the `as` name
\* joins the current scope, the body is visited
VisitWithOrHandler ==
    /\ rv_pc = "body"
    /\ fn.stmt.kind \in {"with", "try"}
    /\ LET refs == visit_reads(fn.stmt.pre, locals_stack, globals_ref)
           stack == scope_add(locals_stack, {LocalName})
       IN  /\ locals_stack' = stack
           /\ globals_ref' = visit_reads(fn.stmt.post, stack, refs)
    /\ rv_pc' = "return"
    /\ RefFrame(IF fn.stmt.kind = "with" THEN "visit_With" ELSE "visit_ExceptHandler",
                "none")

\* visit_FunctionDef on the nested `def h(y=pre): return post`: generic_visit
\* reaches the default inside the pushed scope
VisitNestedFunctionDef ==
    /\ rv_pc = "body"
    /\ fn.stmt.kind = "functiondef"
    /\ LET outer == scope_add(locals_stack, {"h"})
           inner == scope_add(push_scope(outer), {LocalName})
       IN  /\ globals_ref' = visit_reads(fn.stmt.pre \cup fn.stmt.post, inner, globals_ref)
           /\ locals_stack' = pop_scope(inner)
    /\ rv_pc' = "return"
    /\ RefFrame("visit_FunctionDef", "none")

\* generic_visit reaches `return <ret>`
VisitReturn ==
    /\ rv_pc = "return"
    /\ globals_ref' = visit_reads(fn.ret, locals_stack, globals_ref)
    /\ rv_pc' = "leave"
    /\ UNCHANGED locals_stack
    /\ RefFrame("visit_Name", "none")

\* visit_FunctionDef after generic_visit(node): pop_scope
LeaveFunctionDef ==
    /\ rv_pc = "leave"
    /\ locals_stack' = pop_scope(locals_stack)
    /\ rv_pc' = "done"
    /\ UNCHANGED globals_ref
    /\ RefFrame("pop_scope", "none")

NextRefs ==
    \/ VisitFunctionDef
    \/ VisitAssign
    \/ VisitNamedExpr
    \/ VisitExpr
    \/ VisitGlobal
    \/ VisitImport
    \/ GenericVisit
    \/ VisitComp
    \/ VisitWithOrHandler
    \/ VisitNestedFunctionDef
    \/ VisitReturn
    \/ LeaveFunctionDef

SpecRefs == InitRefs /\ [][NextRefs]_vars

\* ------------------------------------------------------ removing decorators
\* how many decorators a definition has
MaxDecorators == 2

\* source text is a sequence of pieces; a piece that is a single character is
\* that character. ast.unparse of the decorators a definition can have:
\* app.route("/"), app.route, app.router("/"), app.route.get("/"), app.admin,
\* app.api.get("/"), login_required, myapp.route("/")
Decorators ==
    { <<"app", ".", "route", "(", "'/'", ")">>,
      <<"app", ".", "route">>,
      <<"app", ".", "route", "r", "(", "'/'", ")">>,
      <<"app", ".", "route", ".", "get", "(", "'/'", ")">>,
      <<"app", ".", "path", "(", "'/'", ")">>,
      <<"app", ".", "re_path", "(", "'/'", ")">>,
      <<"app", ".", "admin">>,
      <<"app", ".", "api", ".", "get", "(", "'/'", ")">>,
      <<"login_required">>,
      <<"my", "app", ".", "route", "(", "'/'", ")">> }

AttrFilters == {"route", "admin", "api"}

\* str.startswith
StartsWith(src, seek) ==
    /\ Len(src) >= Len(seek)
    /\ SubSeq(src, 1, Len(seek)) = seek

\* the filter_fn mk_app_decorator_filter(attr_name) returns, on the unparsed
\* decorator src
filter_fn(src, attr_name, app_name) ==
    LET seek == << app_name, ".", attr_name >>
    IN  /\ StartsWith(src, seek)
        /\ \/ Len(src) = Len(seek)
           \/ src[Len(seek) + 1] \in {".", "("}

\* filter_decorators that stops looking after its first match
filter_decorators_first_match(decorators, attr_name, app_name) ==
    LET Match(d) == filter_fn(d, attr_name, app_name)
        hits == {i \in 1..Len(decorators) : Match(decorators[i])}
        first == IF hits = {} THEN 0 ELSE MinOf(hits)
    IN  [matches |-> IF first = 0 THEN <<>> ELSE << decorators[first] >>,
         others |-> IF first = 0 THEN decorators
                    ELSE SubSeq(decorators, 1, first - 1)
                            \o SubSeq(decorators, first + 1, Len(decorators))]

\* utils.filter_decorators with the filter of attr_name
filter_decorators(decorators, attr_name, app_name) ==
    LET Match(d) == filter_fn(d, attr_name, app_name)
        NoMatch(d) == ~filter_fn(d, attr_name, app_name)
    IN  [matches |-> SelectSeq(decorators, Match),
         others |-> SelectSeq(decorators, NoMatch)]

\* ast.unparse of a definition: one line `@decorator` per decorator, then the
\* definition; and obj_to_ast of such a text
Unparse(decorators) ==
    [i \in 1..(Len(decorators) + 1) |->
        IF i <= Len(decorators) THEN <<"@">> \o decorators[i] ELSE <<"def">>]
Parse(src) ==
    LET lines == SelectSeq(src, LAMBDA l : Head(l) = "@")
    IN  [i \in 1..Len(lines) |-> Tail(lines[i])]

\* ConverterObject.__init__ on a definition of the script
InitDeco ==
    /\ DeferInit
    /\ NoDummy
    /\ NoConversion
    /\ NoStages
    /\ NoVisitor
    /\ NoHandler
    /\ decorator_list \in UNION {[1..n -> Decorators] : n \in 0..MaxDecorators}
    /\ obj_src = Unparse(decorator_list)
    /\ filtered_decorators = <<>>

\* ConverterObject.remove_decorators(filter_fn)
remove_decorators(attr_name) ==
    /\ LET f == filter_decorators(decorator_list, attr_name, AppName)
       IN  /\ decorator_list' = f.others
           /\ obj_src' = Unparse(f.others)
           /\ filtered_decorators' = f.matches
    /\ last' = Outcome("remove_decorators", NoStmt, "none", attr_name, 0, {})
    /\ UNCHANGED << deferVars, dummyVars, convVars, stageVars, refVars, respVars >>

RemoveDecorators == \E attr_name \in AttrFilters : remove_decorators(attr_name)

\* obj_to_ast(self.src): the definition is parsed again from its source
Reparse ==
    /\ decorator_list' = Parse(obj_src)
    /\ last' = Outcome("obj_to_ast", NoStmt, "none", "none", 0, {})
    /\ UNCHANGED << obj_src, filtered_decorators >>
    /\ UNCHANGED << deferVars, dummyVars, convVars, stageVars, refVars, respVars >>

NextDeco ==
    \/ RemoveDecorators
    \/ Reparse

SpecDeco == InitDeco /\ [][NextDeco]_vars

\* ------------------------------------------------------- response wrappers
\* what a handler returns: an object of a class, with its text
Value(class, content) == [class |-> class, content |-> content]
NoResponse == Value("none", "")

\* str, bytes and None are no responses; JsonResponse is a subclass of
\* HttpResponse, StreamingHttpResponse is not
ReturnClasses == {"str", "bytes", "NoneType", "HttpResponse", "JsonResponse",
                  "StreamingHttpResponse"}
Contents == {"a", "b", "c"}
Handlers == [is_async : BOOLEAN, returns : {Value(c, t) : c \in ReturnClasses, t \in Contents}]

\* isinstance(response, HttpResponse)
IsHttpResponse(response) == response.class \in {"HttpResponse", "JsonResponse"}

\* HttpResponse(response): the content is the bytes of a str or bytes, and
\* str() of any other object
HttpResponse(response) ==
    Value("HttpResponse",
          IF response.class \in {"str", "bytes"} THEN response.content
          ELSE "<" \o response.class \o ">")

\* fn(request): the value of a function, the coroutine object of an `async def`
Call(h) == IF h.is_async THEN Value("coroutine", h.returns.content) ELSE h.returns

\* the response of the view string_view(fn) to a request: django_view awaits
\* an `async def`
string_view(h) ==
    LET response == IF h.is_async THEN h.returns ELSE Call(h)
    IN  IF IsHttpResponse(response) THEN response ELSE HttpResponse(response)

\* the response of the view ensure_http_response(view_fn) to a request
ensure_http_response(h) ==
    LET response == Call(h)
    IN  IF IsHttpResponse(response) THEN response ELSE HttpResponse(response)

\* a handler without HttpResponse return annotation is registered by the
\* script and converted
InitResp ==
    /\ DeferInit
    /\ NoDummy
    /\ NoConversion
    /\ NoStages
    /\ NoVisitor
    /\ NoObject
    /\ handler \in Handlers
    /\ script_response = NoResponse
    /\ project_response = NoResponse

\* the running script serves a request (Django.route registered string_view(fn))
ScriptRequest ==
    /\ script_response' = string_view(handler)
    /\ last' = Outcome("string_view", NoStmt, "none", "none", 0, {})
    /\ UNCHANGED << handler, project_response >>
    /\ UNCHANGED << deferVars, dummyVars, convVars, stageVars, refVars, decoVars >>

\* the generated project serves a request (views.py has @ensure_http_response)
ProjectRequest ==
    /\ project_response' = ensure_http_response(handler)
    /\ last' = Outcome("ensure_http_response", NoStmt, "none", "none", 0, {})
    /\ UNCHANGED << handler, script_response >>
    /\ UNCHANGED << deferVars, dummyVars, convVars, stageVars, refVars, decoVars >>

NextResp ==
    \/ ScriptRequest
    \/ ProjectRequest

SpecResp == InitResp /\ [][NextResp]_vars

\* --------------------------------------------------------- AppView and render
\* the ways a view's body refers to the app: a call app.render(...), the
\* attribute app.render without a call, another attribute app.settings, the
\* bare name; and the call render(...) that the rewriter puts in
MaxAppRefs == 3
AppRefs == {"render_call", "render_attr", "other_attr", "name"}
Rewritten == "render"

\* ast.unparse of a node of the body
UnparseNode(node) ==
    CASE node = "render_call" -> "app.render(...)"
      [] node = "render_attr" -> "app.render"
      [] node = "other_attr" -> "app.settings"
      [] node = "name" -> "app"
      [] node = Rewritten -> "render(...)"

\* ast.unparse(self.ast)
UnparseView(body) == [i \in 1..Len(body) |-> UnparseNode(body[i])]

\* ConverterObject.__init__ has run on a view of the script
InitView ==
    /\ DeferInit
    /\ NoDummy
    /\ NoConversion
    /\ NoVisitor
    /\ NoObject
    /\ NoHandler
    /\ NoUrls
    /\ NoSettings
    /\ view_ast \in UNION {[1..n -> AppRefs] : n \in 0..MaxAppRefs}
    /\ view_src = UnparseView(view_ast)
    /\ view_references = {}
    /\ has_render = FALSE
    /\ printed = <<>>
    /\ view_pc = "collect_references"

\* visitor.globals_lookup.get("app"): the Name nodes of the body that read the
\* app, each with the Attribute node above it, if any
app_nodes(body) == {i \in 1..Len(body) : body[i] \in AppRefs}

\* getattr(node, "attribute_parent", None) with attr == "render"
app_attr_nodes(body) ==
    {i \in app_nodes(body) : body[i] \in {"render_call", "render_attr"}}

\* AppRenderRewriter.visit: a Call whose func is one of the nodes becomes a
\* call of render
AppRenderRewriter(body, nodes) ==
    [i \in 1..Len(body) |->
        IF i \in nodes /\ body[i] = "render_call" THEN Rewritten ELSE body[i]]

\* AppView.collect_references()
AppViewCollectReferences ==
    /\ view_pc = "collect_references"
    /\ view_references' = IF app_nodes(view_ast) = {} THEN {} ELSE {AppName}
    /\ view_pc' = "rewrite_app_render"
    /\ last' = Outcome("collect_references", NoStmt, "none", "none", 0, {})
    /\ UNCHANGED << view_ast, view_src, has_render, printed >>
    /\ UNCHANGED << deferVars, dummyVars, convVars, refVars, decoVars, respVars, urlVars, settingsVars >>

\* AppView.rewrite_app_render()
RewriteAppRender ==
    /\ view_pc = "rewrite_app_render"
    /\ LET nodes == app_attr_nodes(view_ast)
           dirty == app_nodes(view_ast) \ nodes # {}
           refs == IF ~dirty /\ nodes # {} THEN view_references \ {AppName}
                   ELSE view_references
           new_ast == AppRenderRewriter(view_ast, nodes)
       IN  /\ printed' = IF dirty THEN <<"Unexpected reference to app in view">>
                          ELSE printed
           /\ IF app_nodes(view_ast) = {} \/ nodes = {}
              THEN /\ view_references' = refs
                   /\ UNCHANGED << view_ast, view_src, has_render >>
              ELSE /\ has_render' = TRUE
                   /\ view_ast' = new_ast
                   /\ view_src' = UnparseView(new_ast)
                   /\ view_references' = refs \cup {"render"}
    /\ view_pc' = "done"
    /\ last' = Outcome("rewrite_app_render", NoStmt, "none", "none", 0, {})
    /\ UNCHANGED << deferVars, dummyVars, convVars, refVars, decoVars, respVars, urlVars, settingsVars >>

NextView ==
    \/ AppViewCollectReferences
    \/ RewriteAppRender

SpecView == InitView /\ [][NextView]_vars

\* ------------------------------------------------------------ app urls stage
MaxRoutes == 2

\* the entries app._routes can have
Routes ==
    {Route("view", ViewName, re, "none") : re \in BOOLEAN}
        \cup {Route("include", "None", re, src) : re \in BOOLEAN, src \in IncludeSources}

\* converter.imports when the stage begins: build_app_api has registered
\* `api`, and the script imports `include`
UrlsStageImports ==
    [n \in {"api", IncludeSrc} |->
        IF n = "api" THEN FromLine(".api", "api") ELSE FromLine("django.urls", IncludeSrc)]

\* build() has come to build_app_urls()
InitUrls ==
    /\ DeferInit
    /\ NoDummy
    /\ NoConversion
    /\ NoVisitor
    /\ NoObject
    /\ NoHandler
    /\ NoView
    /\ NoSettings
    /\ app_routes \in UNION {[1..n -> Routes] : n \in 0..MaxRoutes}
    /\ api_views \in {<<>>, <<ApiName>>}
    /\ app_urls = <<>>

\* Converter.build_app_urls()
BuildAppUrlsOfRoutes ==
    /\ app_urls = <<>>
    /\ app_urls' = build_app_urls(app_routes, api_views # <<>>, UrlsStageImports)
    /\ last' = Outcome("build_app_urls", NoStmt, app_urls'.exc, "none", 0, {})
    /\ UNCHANGED << app_routes, api_views >>
    /\ UNCHANGED << deferVars, dummyVars, convVars, refVars, decoVars, respVars, renderVars, settingsVars >>

NextUrls == BuildAppUrlsOfRoutes

SpecUrls == InitUrls /\ [][NextUrls]_vars

\* ------------------------------------------------------------ settings stage
MaxApps == 2
AppLabels == {"a", "b"}
AppLists == UNION {[1..n -> AppLabels] : n \in 0..MaxApps}

\* the value of a keyword argument, as an ast node: a list literal with its
\* elements, a lambda, a concatenation of list literals, a call of a modifier
\* (Django.conf.append("a")), a constant; Absent: the keyword is not given
Expr(kind, elts) == [kind |-> kind, elts |-> elts]
Absent == Expr("absent", <<>>)
OtherExprs == {Expr(k, <<>>) : k \in {"Lambda", "BinOp", "Call"}}
SettingNames == {"INSTALLED_APPS", "EXTRA_APPS", "DEBUG", "FOO"}

\* the keyword arguments a script of the family gives to Django(...)
DjangoKwargs ==
    {kw \in [SettingNames -> {Absent, Expr("Constant", <<>>)}
                                \cup {Expr("List", l) : l \in AppLists} \cup OtherExprs] :
        /\ kw["EXTRA_APPS"].kind \in {"absent", "List"}
        /\ kw["INSTALLED_APPS"].kind # "Constant"
        /\ kw["DEBUG"].kind \in {"absent", "Constant"}
        /\ kw["FOO"].kind \in {"absent", "Constant"}}

\* the settings.py of `django-admin startproject`
ProjectLabel == "project.app"
TemplateSettings ==
    [n \in {"INSTALLED_APPS", "DEBUG", "FOO"} |->
        CASE n = "INSTALLED_APPS" -> Expr("List", <<"django.contrib.auth">>)
          [] n = "DEBUG" -> Expr("Constant", <<>>)
          [] OTHER -> Absent]

\* collect_references(keyword.value): of these values only the modifier reads
\* a name
ExprReferences(e) == IF e.kind = "Call" THEN {"Django"} ELSE {}

\* Converter.build_settings(): the settings of the script replace those of the
\* template or are appended, the nanodjango-specific ones are left out, and
\* an INSTALLED_APPS that is a list literal gets the app and the EXTRA_APPS
build_settings(kw) ==
    LET app_settings ==
            [n \in {"INSTALLED_APPS", "DEBUG", "FOO"} |-> kw[n]]
        replaced ==
            [n \in DOMAIN TemplateSettings |->
                IF app_settings[n] # Absent THEN app_settings[n] ELSE TemplateSettings[n]]
        apps == replaced["INSTALLED_APPS"]
        extra == IF kw["EXTRA_APPS"] = Absent THEN <<>> ELSE kw["EXTRA_APPS"].elts
        references == UNION {ExprReferences(app_settings[n]) : n \in DOMAIN app_settings}
    IN  [assigns |->
            [replaced EXCEPT !["INSTALLED_APPS"] =
                IF apps.kind = "List"
                THEN Expr("List", (apps.elts \o <<ProjectLabel>>) \o extra)
                ELSE apps],
         imports |-> {FromLine("nanodjango", ref) : ref \in references}]

\* build() has come to build_settings()
InitSettings ==
    /\ DeferInit
    /\ NoDummy
    /\ NoConversion
    /\ NoVisitor
    /\ NoObject
    /\ NoHandler
    /\ NoView
    /\ NoUrls
    /\ django_kwargs \in DjangoKwargs
    /\ settings_py = <<>>

BuildSettings ==
    /\ settings_py = <<>>
    /\ settings_py' = build_settings(django_kwargs)
    /\ last' = Outcome("build_settings", NoStmt, "none", "none", 0, {})
    /\ UNCHANGED django_kwargs
    /\ UNCHANGED << deferVars, dummyVars, convVars, refVars, decoVars, respVars, renderVars,
                    urlVars >>

NextSettings == BuildSettings

SpecSettings == InitSettings /\ [][NextSettings]_vars

\* ---------------------------------------------------------------- properties
IsPlaceholder(v) == v.t = "DummyObject"

\* the statements of the allowlist of _deferred_import
AllowedStmts == {ImportStmt("os", ""), ImportStmt("sys", ""), ImportStmt("tokenize", "")}

\* the names a statement binds
BoundNames(stmt) == {BoundName(stmt, stmt.items[i]) : i \in 1..Len(stmt.items)}

\* some queued item was executed in this step
SomeExecuted == \E id \in DOMAIN executed : executed'[id] > executed[id]

EnterOps == {"enter", "enter_optional"}
ExitOps == {"exit", "exit_optional"}

\* C1: while the deferrer is active, an import statement other than `import os`,
\* `import sys` and `import tokenize` performs no real import: it only appends to
\* the queue and binds a placeholder to each of its names; leaving the scope
\* executes nothing; a queued import is executed only inside apply().
C1_InterceptedImportOnlyQueues ==
    [][ /\ (last'.op = "import" /\ active /\ last'.stmt \notin AllowedStmts)
            => /\ last'.real = {}
               /\ Len(deferred_imports') > Len(deferred_imports)
               /\ \A x \in BoundNames(last'.stmt) : IsPlaceholder(namespaces'[Script][x])
        /\ last'.op \in ExitOps => (last'.real = {} /\ executed' = executed)
        /\ SomeExecuted => last'.op = "apply"
      ]_vars

\* C2: after apply() returns without error, every name a queued statement would
\* have bound holds, in the namespace captured at interception, the object a
\* direct execution of that statement binds to it, and so no placeholder.
\* (Statements whose direct execution raises are left out.)
C2_ApplyBindsWhatDirectImportBinds ==
    [][ (last'.op = "apply" /\ last'.exc = "none")
            => \A stmt \in pending_stmts :
                  LET direct == DirectImport(namespaces[Script], stmt)
                  IN  direct.exc = "none"
                        => \A x \in BoundNames(stmt) :
                              namespaces'[Script][x] = direct.ns[x]
      ]_vars

\* C3: apply() called while the deferrer is active raises RuntimeError, executes
\* no queued import and leaves the queue, the captured namespace, the active flag
\* and every binding as they were.
C3_ApplyWhileActiveRaises ==
    [][ (last'.op = "apply" /\ active)
            => /\ last'.exc = "RuntimeError"
               /\ ~SomeExecuted
               /\ last'.real = {}
               /\ UNCHANGED << deferred_imports, caller_globals, active,
                               file_cache, namespaces, executed >>
      ]_vars

\* C3 happens: apply() has just raised RuntimeError with imports queued and the
\* deferrer active
C3_AppliedWhileActive ==
    /\ last.op = "apply"
    /\ last.exc = "RuntimeError"
    /\ active
    /\ deferred_imports # <<>>

\* C4: every queued DeferredImport is executed exactly once and then discarded:
\* no item is ever executed a second time, whatever sequence of apply() calls is
\* made, and after an apply() that returned the queue, the captured namespace
\* and the file cache are empty.
C4_QueuedItemExecutedOnce ==
    /\ \A id \in DOMAIN executed : executed[id] <= 1
    /\ (last.op = "apply" /\ last.exc = "none")
          => (deferred_imports = <<>> /\ caller_globals = "none" /\ file_cache = {})

\* what importing the queued item raises on its own ("none": nothing)
ImportFailure(d) ==
    IF ModuleStatus(d.module_name) # "none" THEN ModuleStatus(d.module_name)
    ELSE IF d.from_name # "" /\ d.from_name \notin ModuleAttrs(d.module_name)
         THEN "AttributeError"
    ELSE "none"

DeferredErrorFor(e) ==
    CASE e = "ModuleNotFoundError" -> "DeferredModuleNotFoundError"
      [] e = "AttributeError" -> "DeferredAttributeError"
      [] OTHER -> "DeferredImportError"

AllFailures == {"ImportError", "ModuleNotFoundError", "AttributeError", "ValueError"}

\* apply() treats the failures of the types in `handled` as C5 says, and lets
\* any other exception out as it is: the queue is executed in order up to the
\* first item whose failure is not absorbed; a failing optional item before it is
\* bound to None; that item's failure is raised, wrapped if its type is handled
HandlesFailures(handled) ==
    (last'.op = "apply" /\ ~active)
        => LET q == deferred_imports
               stops == {i \in 1..Len(q) :
                            /\ ImportFailure(q[i]) # "none"
                            /\ ~(q[i].optional /\ ImportFailure(q[i]) \in handled)}
               k == IF stops = {} THEN Len(q) + 1 ELSE MinOf(stops)
           IN  /\ \A i \in 1..Len(q) :
                     (i < k /\ ImportFailure(q[i]) # "none")
                        => namespaces'[q[i].target_globals][TargetName(q[i])] = NoneValue
               /\ last'.real = {q[i].module_name : i \in {j \in 1..Len(q) : j <= k}}
               /\ IF stops = {} THEN last'.exc = "none"
                  ELSE /\ last'.failed = q[k].id
                       /\ last'.orig = ImportFailure(q[k])
                       /\ last'.exc = IF ImportFailure(q[k]) \in handled
                                      THEN DeferredErrorFor(ImportFailure(q[k]))
                                      ELSE ImportFailure(q[k])

\* C5 as stated: whatever a queued import fails with, an optional item is bound
\* to None and apply() goes on, and a required item makes apply() raise
\* DeferredModuleNotFoundError (no such module), DeferredAttributeError (no such
\* attribute) or DeferredImportError (any other failure) carrying the original
\* error and the failing DeferredImport.
C5_EveryFailureHandled ==
    [][HandlesFailures(AllFailures)]_vars

\* C5, amended: that holds for failures that are an ImportError (with
\* ModuleNotFoundError) or an AttributeError; an exception of any other type
\* raised by the imported module leaves apply() unchanged and unwrapped, for an
\* optional item as for a required one.
C5_ImportFailuresHandled ==
    [][HandlesFailures(CaughtTypes)]_vars

\* C5 happens: in one apply() an optional item that failed was bound to None and
\* a later optional item's exception left apply() as it was
C5_OptionalFailurePropagated ==
    /\ last.op = "apply"
    /\ last.exc \notin {"none", "RuntimeError"}
    /\ last.exc = last.orig
    /\ \E i \in 1..Len(deferred_imports) :
          /\ deferred_imports[i].id = last.failed
          /\ deferred_imports[i].optional
    /\ \E x \in Names : namespaces[Script][x] = NoneValue

\* the dotted name made of the components of t
RECURSIVE JoinDots(_)
JoinDots(t) ==
    IF Len(t) = 1 THEN t[1] ELSE JoinDots(SubSeq(t, 1, Len(t) - 1)) \o "." \o t[Len(t)]

\* reading an attribute or using a placeholder imports nothing
NothingImported ==
    /\ last.real = {}
    /\ executed = <<>>
    /\ \A n \in Namespaces : \A x \in Names : namespaces[n][x] = Unbound

\* C6 as stated: reading any attribute A of a placeholder named N never raises,
\* imports nothing and returns a new placeholder named N.A; calling it, str, repr
\* and bool of it raise DeferredUsageError.
C6_AnyAttributeIsPlaceholder ==
    /\ last.op = "getattr" => (last.exc = "none" /\ dummy = DummyObject(JoinDots(trail)))
    /\ last.op \in Uses => last.exc = "DeferredUsageError"
    /\ NothingImported

\* C6, amended: reading an attribute A never raises and imports nothing; it
\* returns a new placeholder named N.A unless the placeholder has an attribute A
\* of its own: `name` reads as the string N, `_raise_error` as a method and
\* `__class__` as the class.  Calling it, str, repr and bool of it raise
\* DeferredUsageError.
C6_MissingAttributeIsPlaceholder ==
    /\ last.op = "getattr"
          => LET A == trail[Len(trail)]
                 N == JoinDots(SubSeq(trail, 1, Len(trail) - 1))
             IN  /\ last.exc = "none"
                 /\ dummy = CASE A = "name" -> StrObj(N)
                              [] A = "_raise_error" -> MethodObj(N)
                              [] A = "__class__" -> ClassObj("DummyObject")
                              [] OTHER -> DummyObject(N \o "." \o A)
    /\ last.op \in Uses => last.exc = "DeferredUsageError"
    /\ NothingImported

\* C6 happens: `name` was read from a placeholder that an attribute read returned
C6_NameReadFromNestedPlaceholder ==
    /\ last.op = "getattr"
    /\ Len(trail) = 3
    /\ trail[2] \notin {"name", "_raise_error", "__class__"}
    /\ trail[3] = "name"
    /\ dummy.t = "str"

\* entering while active changes nothing of the deferrer
EnterWhileActiveIsNoop ==
    (last'.op \in EnterOps /\ active)
        => UNCHANGED << active, caller_globals, original_import_saved,
                        builtins_import, deferred_imports >>

\* C7 as stated: entering while active is a no-op; of nested blocks only the
\* outermost exit deactivates the deferrer and restores the import function:
\* after an inner exit the deferrer is still active, and imports in the rest of
\* the outer block are still intercepted.
C7_OnlyOutermostExitDeactivates ==
    [][ /\ EnterWhileActiveIsNoop
        /\ (last'.op \in ExitOps /\ active /\ Len(scopes) > 1)
              => (active' /\ builtins_import' = "deferred")
        /\ (last'.op \in ExitOps /\ active /\ Len(scopes) = 1)
              => (~active' /\ builtins_import' = "original")
        /\ (last'.op = "import" /\ scopes # <<>>) => builtins_import = "deferred"
      ]_vars

\* C7, amended: entering while active is a no-op and is not counted: the end of
\* any `with defer:` block, inner or outermost, deactivates the deferrer and
\* restores the import function, and the end of a `with defer.optional:` block
\* does so unless the deferrer was active when the block was entered; an exit of
\* an inactive deferrer is a no-op; an import executed while the deferrer is
\* inactive, such as in the rest of an outer block, is a real import and queues
\* nothing.
C7_FirstExitDeactivates ==
    [][ /\ EnterWhileActiveIsNoop
        /\ last'.op = "exit" => (~active' /\ builtins_import' = "original")
        /\ last'.op = "exit_optional"
              => IF active /\ scopes[Len(scopes)].was_active
                 THEN active' /\ builtins_import' = "deferred"
                 ELSE ~active' /\ builtins_import' = "original"
        /\ last'.op \in ExitOps => UNCHANGED << deferred_imports, executed, namespaces >>
        /\ (last'.op = "import" /\ ~active)
              => (last'.real = {last'.stmt.module} /\ UNCHANGED deferred_imports)
      ]_vars

\* C7 happens: inside an outer `with defer:` block, after an inner exit, an
\* import statement was executed for real
C7_RealImportInOuterBlock ==
    /\ scopes # <<>>
    /\ scopes[1].kind = "defer"
    /\ ~active
    /\ last.op = "import"
    /\ last.real # {}

\* the elements of a sequence, how often x occurs in it, and where it occurs first
Range(seq) == {seq[i] : i \in 1..Len(seq)}
Count(seq, x) == Cardinality({i \in 1..Len(seq) : seq[i] = x})
Pos(seq, x) == MinOf({i \in 1..Len(seq) : seq[i] = x})

\* the names whose definition the written file holds
Defined(f) ==
    IF files[f].written
    THEN Range(files[f].content.gen) \cup Range(files[f].content.body)
    ELSE {}

\* C8: after a conversion run, every top-level definition of the script that
\* was not moved into a stage's module (here views.py) has its definition in
\* unused.py, whatever the plugins add to the unused stage.
C8_UnusedDefinitionsWritten ==
    pc = "done"
        => \A x \in script_defs : x \notin Defined("views.py") => x \in Defined("unused.py")

\* C9: within one Resolver, gen_src() collects each definition once: the name
\* it collects is not in local_refs already, and its source is not in the
\* source collected so far.
C9_DefinitionCollectedOnce ==
    [][ Len(gs_all_src') = Len(gs_all_src) + 1
            => LET x == gs_all_src'[Len(gs_all_src')]
               IN  /\ x \notin local_refs
                   /\ x \notin Range(gs_all_src)
      ]_vars

\* a depends on b
Depends(a, b) == b \in collect_references(a, script_reads[a])

\* a depends on b and b on c, and none of the three on itself or back
AcyclicChain(a, b, c) ==
    /\ a # b /\ b # c /\ a # c
    /\ Depends(a, b) /\ Depends(b, c)
    /\ ~Depends(b, a) /\ ~Depends(c, a) /\ ~Depends(c, b)
    /\ ~Depends(a, a) /\ ~Depends(b, b) /\ ~Depends(c, c)

\* C10: for an acyclic chain A depends on B depends on C, the source gen_src()
\* returned holds each of the three once, C before B before A, whichever name
\* was taken from global_refs first.
C10_DependenciesBeforeDependents ==
    \A f \in FileNames :
        files[f].written
            => LET out == files[f].content.gen
               IN  \A a, b, c \in DefNames :
                      (AcyclicChain(a, b, c) /\ {a, b, c} \subseteq Range(out))
                          => /\ Count(out, a) = 1 /\ Count(out, b) = 1 /\ Count(out, c) = 1
                             /\ Pos(out, c) < Pos(out, b)
                             /\ Pos(out, b) < Pos(out, a)

\* build() has stopped on the collection of X, a name the view reads that is
\* missing from the module or bound by no ast.Assign of it
CollectionOfConstFailed ==
    /\ pc = "failed"
    /\ feature \in {NoFeature, AnnAssign}
    /\ routes # {}
    /\ ConstName \in view_reads

\* C11: when a referenced name is neither an object with retrievable source nor
\* a top-level assignment, collection raises ConversionError, and no file holds
\* a definition for the name.
C11_UncollectableRaisesConversionError ==
    CollectionOfConstFailed
        => /\ last.exc = "ConversionError"
           /\ \A f \in FileNames : ~files[f].written

\* C12: in a stage's Resolver no name is in local_refs and in global_refs at
\* the same time: not after add() of a definition that an earlier definition
\* referenced, and not after gen_src() has returned.
C12_LocalAndGlobalRefsDisjoint ==
    local_refs \cap global_refs = {}

\* C13: once collect_imports() has run, every name an import statement of the
\* script binds is a key of converter.imports, and no such name is handed to
\* collect_definition (it is never the cause of a failed run, and no file
\* holds source copied for it).
C13_BoundImportNamesAreKeys ==
    pc # "collect_imports"
        => /\ \A n \in ImportBound(feature) : conv_imports[n] # NoLine
           /\ (pc = "failed" /\ ConstName \notin view_reads) => last.exc = "none"
           /\ \A f \in FileNames :
                 Defined(f) \cap {getsource(n).src : n \in ImportBound(feature)} = {}

\* the conversion of a script that has one route and no other definition, with
\* no plugin adding lines, has run to its end
OneRouteScriptConverted ==
    /\ pc = "done"
    /\ routes = {ViewName}
    /\ script_defs = {}
    /\ extra_src = <<>>

\* C14: converting a script with exactly one route and no models, admin or api
\* gives a views.py that defines the one handler and nothing else, a urls.py with
\* one entry for the handler, and no unused.py, models.py, admin.py or api.py.
C14_OneRouteGivesViewsAndUrlsOnly ==
    OneRouteScriptConverted
        => /\ files["views.py"].written
           /\ Defined("views.py") = {ViewName}
           /\ files["urls.py"].written
           /\ files["urls.py"].content.body = <<ViewName>>
           /\ \A f \in {"unused.py", "models.py", "admin.py", "api.py"} : ~files[f].written

\* the same, for a handler annotated as returning an HttpResponse
C14_AnnotatedRouteGivesViewsAndUrlsOnly ==
    (OneRouteScriptConverted /\ annotated) => C14_OneRouteGivesViewsAndUrlsOnly

\* statements that assign y, and the functions made of parameters, an assignment
\* or expression statement and a return, where no assignment reads its own target
AssignKinds == {"assign", "assign_tuple", "assign_star", "annassign", "namedexpr"}
PlainFunction ==
    /\ fn.stmt.kind \in AssignKinds \cup {"expr", "attribute"}
    /\ (fn.stmt.kind \in AssignKinds => LocalName \notin fn.stmt.pre)

\* the names a plain function reads that are neither its parameter, nor
\* assigned before the read, nor builtins
ExternalReads ==
    (fn.stmt.pre \cup fn.ret)
        \ ({ParamName} \cup Builtins
               \cup (IF fn.stmt.kind \in AssignKinds THEN {LocalName} ELSE {}))

\* C15: for a function definition the visitor reports exactly the names read in
\* the body that are neither parameters, nor assigned in the function before
\* the read, nor builtins.
C15_ReportsExactlyExternalReads ==
    (rv_pc = "done" /\ PlainFunction) => globals_ref = ExternalReads

\* C16: the iteration variable of a list, set, dict or generator comprehension
\* is not reported when it is read inside the comprehension, and it is in no
\* scope once the comprehension has been visited.
C16_ComprehensionVariableIsLocal ==
    (rv_pc \in {"return", "leave", "done"} /\ fn.stmt.kind \in CompKinds \cup {"dictcomp"})
        => /\ LocalName \notin local_scopes(locals_stack)
           /\ (LocalName \notin fn.stmt.pre \cup fn.ret) => LocalName \notin globals_ref

\* a is what is left of b when some of its elements are taken out
IsSubSeq(a, b) ==
    \E f \in [1..Len(a) -> 1..Len(b)] :
        /\ \A i \in 1..Len(a) : b[f[i]] = a[i]
        /\ \A i, j \in 1..Len(a) : i < j => f[i] < f[j]

\* the decorator matches the predicate of attr_name
MatchesFilter(d, attr_name) == filter_fn(d, attr_name, AppName)

\* C17: remove_decorators(predicate) returns exactly the decorators that match
\* the predicate, the definition keeps exactly the others in their order, the
\* definition parsed again from its new source has no matching decorator, and
\* removing with the same predicate again removes nothing.
C17_RemoveDecoratorsPartitions ==
    [][ last'.op = "remove_decorators"
            => /\ \A d \in Decorators :
                     Count(decorator_list, d)
                        = Count(filtered_decorators', d) + Count(decorator_list', d)
               /\ \A d \in Range(filtered_decorators') : MatchesFilter(d, last'.orig)
               /\ \A d \in Range(decorator_list') : ~MatchesFilter(d, last'.orig)
               /\ IsSubSeq(filtered_decorators', decorator_list)
               /\ IsSubSeq(decorator_list', decorator_list)
               /\ \A d \in Range(Parse(obj_src')) : ~MatchesFilter(d, last'.orig)
               /\ (last.op = "remove_decorators" /\ last.orig = last'.orig)
                     => (filtered_decorators' = <<>> /\ decorator_list' = decorator_list)
      ]_vars

\* C17 happens: remove_decorators has taken decorators out of a definition and
\* left others
C17_SomeRemovedSomeKept ==
    /\ last.op = "remove_decorators"
    /\ Len(filtered_decorators) >= 1
    /\ Len(decorator_list) >= 1
    /\ obj_src = Unparse(decorator_list)

\* C18: for a handler whose declared return type is not HttpResponse, sync or
\* async, the generated project's wrapper gives the response the running
\* script's wrapper gives: a returned HttpResponse (or subclass) itself, and
\* HttpResponse(value) for any other value.
C18_WrappersAgree ==
    (script_response # NoResponse /\ project_response # NoResponse)
        => /\ project_response = script_response
           /\ project_response = IF IsHttpResponse(handler.returns) THEN handler.returns
                                  ELSE HttpResponse(handler.returns)

\* the same for handlers that are plain functions
C18_WrappersAgreeOnFunctions ==
    ~handler.is_async => C18_WrappersAgree

\* both wrappers have answered a request to a plain function that returns a str
C18_BothAnsweredFunction ==
    /\ ~handler.is_async
    /\ handler.returns.class = "str"
    /\ script_response # NoResponse
    /\ project_response # NoResponse

\* the DeferredImport is the one a statement queues for its item
QueuedFor(deferred, stmt, it) ==
    /\ deferred.module_name = stmt.module
    /\ IF stmt.kind = "from"
       THEN deferred.from_name = it.name /\ deferred.from_alias = it.asname
       ELSE deferred.from_name = "" /\ deferred.alias = it.asname

\* C19: for an import statement executed while the deferrer is active, the
\* statement reconstructed from the bytecode is the one executing: exactly one
\* DeferredImport is queued per name the statement binds, each with the
\* statement's module, name and alias - whatever import statements lie in the
\* neighbouring instructions.
C19_ReconstructedStatementIsExecuting ==
    [][ (last'.op = "import" /\ active /\ last'.stmt \notin AllowedStmts)
            => LET stmt == last'.stmt
                   n == Len(deferred_imports)
               IN  /\ Len(deferred_imports') = n + Len(stmt.items)
                   /\ \A i \in 1..Len(stmt.items) :
                         /\ n + i <= Len(deferred_imports')
                         /\ QueuedFor(deferred_imports'[n + i], stmt, stmt.items[i])
      ]_vars

\* the script is inside a `with defer.optional:` block
InOptional == \E i \in 1..Len(scopes) : scopes[i].kind = "optional"

\* the DeferredImports a step has appended to the queue
NewlyQueued ==
    {deferred_imports'[i] : i \in (Len(deferred_imports) + 1)..Len(deferred_imports')}

\* a DeferredImport is flagged optional exactly when it is queued inside the
\* optional sub-scope, and leaving the sub-scope restores the optional flag
OptionalFlagFollowsScope ==
    /\ (last'.op = "import" /\ Len(deferred_imports') > Len(deferred_imports))
          => \A d \in NewlyQueued : d.optional = InOptional
    /\ last'.op = "exit_optional"
          => optional_mode' = scopes[Len(scopes)].old_optional_mode

\* C20 as stated: a DeferredImport is flagged optional iff it was queued inside
\* the optional sub-scope, and leaving the sub-scope restores the optional flag
\* and the active state to what they were when it was entered.
C20_OptionalExitRestoresActive ==
    [][ /\ OptionalFlagFollowsScope
        /\ last'.op = "exit_optional" => active' = scopes[Len(scopes)].was_active
      ]_vars

\* C20: a DeferredImport is flagged optional iff it was queued inside the
\* optional sub-scope; leaving the sub-scope restores the optional flag; it
\* deactivates the deferrer when the sub-scope was entered on its own, and
\* otherwise leaves the active state as it finds it: active, unless a `with
\* defer:` block was left inside the sub-scope, which has deactivated it.
C20_OptionalExitKeepsActiveOfOuterScope ==
    [][ /\ OptionalFlagFollowsScope
        /\ last'.op = "exit_optional"
              => active' = IF scopes[Len(scopes)].was_active THEN active ELSE FALSE
        /\ (last'.op = "exit_optional" /\ active' # scopes[Len(scopes)].was_active)
              => ~active
        /\ (last'.op = "exit" /\ InOptional) => ~active'
      ]_vars

\* C20 happens: an optional sub-scope nested in the main scope was left, the
\* deferrer is still active and the queue holds an optional item
C20_LeftNestedOptional ==
    /\ last.op = "exit_optional"
    /\ active
    /\ ~optional_mode
    /\ scopes # <<>>
    /\ \E i \in 1..Len(deferred_imports) : deferred_imports[i].optional

\* C21: once the source of a symbol is in one generated module, no module
\* generated later holds it too (urls.py holds url entries, no source), and a later module whose definitions read the
\* symbol imports it from the module that first emitted it.
C21_EmittedOnceAcrossModules ==
    /\ \A f, g \in FileNames \ {"urls.py"} : f # g => Defined(f) \cap Defined(g) = {}
    /\ files["unused.py"].written
          => \A n \in Defined("unused.py") \cap DefNames :
                \A m \in collect_references(n, script_reads[n]) \cap Defined("views.py") :
                    FromLine(".views", m) \in files["unused.py"].content.imports

\* the names whose collected source is in srcs
CollectedNames(srcs) ==
    {n \in ModuleDict \cup {WrapperName} :
        /\ collect_definition(n).exc = "none"
        /\ collect_definition(n).src \in Range(srcs)}

\* C22: gen_src() terminates for every set of definitions, also when they read
\* themselves or each other in a cycle, and when it returns every symbol whose
\* definition it collected is in local_refs.
C22_GenSrcTerminatesWithCollectedLocal ==
    /\ (pc = "gen_src") ~> (pc # "gen_src")
    /\ [][ (pc = "gen_src" /\ pc' \notin {"gen_src", "failed"})
              => CollectedNames(gs_all_src) \subseteq local_refs ]_vars

\* C22 happens: gen_src() has returned after collecting two definitions that
\* read each other, and one that reads itself
C22_ReturnedFromCycle ==
    /\ last.op = "write_file"
    /\ \E a, b \in DefNames :
          /\ a # b
          /\ b \in script_reads[a] /\ a \in script_reads[b]
          /\ {a, b} \subseteq Range(gs_all_src)
    /\ \E c \in DefNames : c \in script_reads[c] /\ c \in Range(gs_all_src)

\* the body of the view refers to the app in another way than app.render(...)
OtherAppReference(body) ==
    \E i \in 1..Len(body) : body[i] \in {"other_attr", "name"}

\* C23: when the body of a view has a reference to the app that is not an
\* app.render(...) call, rewrite_app_render() prints the warning and leaves
\* the src of the view as it was: no app.render call has become render.
C23_DirtyViewIsNotRewritten ==
    [][ (last'.op = "rewrite_app_render" /\ OtherAppReference(view_ast))
            => /\ printed' # <<>>
               /\ view_src' = view_src
               /\ \A i \in 1..Len(view_src') : view_src'[i] # UnparseNode(Rewritten)
      ]_vars

\* C24: a name bound as the target of a for loop, by `with ... as` or by
\* `except ... as` is in the current scope from the binding on: a read of it
\* in the body of the loop, with or handler, or later in the function, is not
\* reported as an external reference.
C24_LoopWithAndHandlerTargetsAreLocal ==
    (/\ rv_pc = "done"
     /\ fn.stmt.kind \in {"for", "with", "try"}
     /\ LocalName \notin fn.stmt.pre)
        => LocalName \notin globals_ref

\* C25: the visit of a function that has `global y` completes without error,
\* and every name of the global statement is reported as an external reference.
C25_GlobalStatementIsForcedReference ==
    (fn # <<>> /\ fn.stmt.kind = "global" /\ rv_pc \notin {"visit", "body"})
        => /\ rv_pc # "failed"
           /\ last.exc = "none"
           /\ rv_pc = "done" => LocalName \in globals_ref

\* C26: in the app-URL stage, when app._routes has an include whose call in
\* the script carries no `include` keyword argument, the stage raises
\* ConversionError and writes no urls.py; the entry is not skipped and no other
\* exception comes out.
C26_IncludeWithoutKeywordIsConversionError ==
    (/\ last.op = "build_app_urls"
     /\ \E i \in 1..Len(app_routes) :
           app_routes[i].kind = "include" /\ app_routes[i].source # "keyword")
        => /\ app_urls.exc = "ConversionError"
           /\ ~app_urls.written

\* the names the lines of urlpatterns use
UsedInUrlpatterns(u) ==
    u.fns
        \cup (IF \E i \in 1..Len(u.urls) : u.urls[i] = IncludeSrc THEN {IncludeSrc} ELSE {})
        \cup (IF \E i \in 1..Len(u.urls) : u.urls[i] = ViewName THEN {"views"} ELSE {})
        \cup (IF \E i \in 1..Len(u.urls) : u.urls[i] = "api.urls" THEN {"api"} ELSE {})

\* the names the import lines of a file bring in
ImportedBy(lines) == {l[Len(l)] : l \in {x \in lines : Len(x) \in {2, 4}}}

\* C30: when the app-URL stage writes urls.py, also for a script with api
\* endpoints and no routes, every import statement of the file names a symbol
\* and every name used in urlpatterns is imported in the file.
C30_UrlsFileImportsWhatItUses ==
    (last.op = "build_app_urls" /\ app_urls.written)
        => /\ \A l \in UrlsImportLines(app_urls) : Len(l) \in {2, 4}
           /\ UsedInUrlpatterns(app_urls) \subseteq ImportedBy(UrlsImportLines(app_urls))

\* the strings of a value that is a list literal
AppsOf(e) == IF e.kind = "List" THEN Range(e.elts) ELSE {}

\* C27: after the settings stage, INSTALLED_APPS of the generated settings
\* holds the dotted path of the generated app and every entry of the script's
\* EXTRA_APPS, whether the script gave no INSTALLED_APPS, a list literal, or
\* another expression.
C27_InstalledAppsHasAppAndExtraApps ==
    last.op = "build_settings"
        => LET apps == AppsOf(settings_py.assigns["INSTALLED_APPS"])
           IN  /\ ProjectLabel \in apps
               /\ AppsOf(django_kwargs["EXTRA_APPS"]) \subseteq apps

\* C28: for the process-wide deferrer, whatever blocks were entered and left
\* and whatever was applied, builtins.__import__ is the interceptor exactly
\* when the deferrer is active and the original function exactly when it is
\* not, and the saved original is never the interceptor.
C28_ImportHookFollowsActive ==
    /\ active <=> builtins_import = "deferred"
    /\ ~active <=> builtins_import = "original"
    /\ original_import_saved # "deferred"

\* C28 happens: apply() has run imports that were queued in blocks entered and
\* left before
C28_AppliedAfterScopes ==
    /\ last.op = "apply"
    /\ last.exc = "none"
    /\ n_imports > 0
    /\ original_import_saved = "original"
    /\ ~active

\* the decorators through which app.route, app.path and app.re_path register a
\* handler, as they are written on the handler
RouteRegistrations ==
    {d \in Decorators :
        /\ Len(d) >= 4
        /\ d[1] = AppName /\ d[2] = "." /\ d[3] \in {"route", "path", "re_path"}
        /\ d[4] = "("}

\* decorators whose expression refers to the app instance
RefersToApp(d) == d[1] = AppName

\* C29: a handler registered through app.route, app.path or app.re_path (its
\* only decorators that refer to the app) has, after AppView.__init__ cleared
\* its route decorators, no decorator that refers to the app instance in the
\* source emitted into views.py.
C29_ViewSourceHasNoAppDecorator ==
    [][ ( /\ last'.op = "remove_decorators" /\ last'.orig = "route"
          /\ Range(decorator_list) \cap RouteRegistrations # {}
          /\ \A d \in Range(decorator_list) : RefersToApp(d) => d \in RouteRegistrations )
            => \A d \in Range(Parse(obj_src')) : ~RefersToApp(d)
      ]_vars

====
